---- MODULE Spec2Model ----
(***************************************************************************)
(* Accessibility-aware routing of nav-cu: the preference-aware solver      *)
(* findShortestPath (src/utils/routing.ts) with its cost function          *)
(* edgeCost, and the two-phase route effect of NavigationScreen            *)
(* (src/app/(tabs)/navigation.tsx).                                        *)
(*                                                                         *)
(* Six specifications share the definitions:                               *)
(*   Spec         one call of findShortestPath, one step per iteration;    *)
(*   SpecCost     one call of edgeCost on a pair of nodes and an edge;     *)
(*   SpecNav      the NavigationScreen state machine and its effects;      *)
(*   SpecCalls    calls of findShortestPath made one after another;        *)
(*   SpecScenario one call on the graphs of worked examples;               *)
(*   SpecLegacy   one call with empty preferences, then a call of the      *)
(*                earlier three-argument findShortestPath.                 *)
(***************************************************************************)
EXTENDS Integers, Sequences, FiniteSets, TLC

(***************************************************************************)
(* Bounds of the model.                                                    *)
(***************************************************************************)
\* largest number of edges of a graph handed to the solver
MaxEdges == 3
\* largest edge distance
MaxDist == 3
\* the positive penalty value tried for the solver's preferences
MaxPenalty == 2

(***************************************************************************)
(* JavaScript values.                                                      *)
(***************************************************************************)
Null == "null"
Undefined == "undefined"
\* Infinity, kept apart from every finite distance (distances are >= 0)
Infinity == -1

\* the ids of the nodes of the graph, in the order of data.nodes
NodeIds == <<"A", "B", "C">>
NumNodes == Len(NodeIds)
NodeIdSet == {NodeIds[i] : i \in 1..NumNodes}
\* an id that is the id of no node
AbsentId == "X"

Max(a, b) == IF a >= b THEN a ELSE b

\* a < b on JavaScript numbers, either of which may be Infinity
NumLess(a, b) == a # Infinity /\ (b = Infinity \/ a < b)

(***************************************************************************)
(* Node, Edge, GraphData, RoutePreferences (types/graph, routing.ts 3-19). *)
(* Optional fields are fields a record may lack.                           *)
(***************************************************************************)
\* node?.field === true, for a node that may lack the field
FieldIsTrue(node, f) == f \in DOMAIN node /\ node[f] = TRUE
\* node?.field === false
FieldIsFalse(node, f) == f \in DOMAIN node /\ node[f] = FALSE

\* nodeMap.get(id) on an id the map lacks: optional chaining reads undefined
UndefinedNode == [missing |-> TRUE]

nodeMapOf(data) ==
  [id \in {data.nodes[i].id : i \in DOMAIN data.nodes} |->
     data.nodes[CHOOSE i \in DOMAIN data.nodes :
                  /\ data.nodes[i].id = id
                  /\ \A j \in DOMAIN data.nodes : data.nodes[j].id = id => j <= i]]

nodeMapGet(nodeMap, id) ==
  IF id \in DOMAIN nodeMap THEN nodeMap[id] ELSE UndefinedNode

\* { ...prefs, f: v }
WithField(prefs, f, v) ==
  [g \in DOMAIN prefs \cup {f} |-> IF g = f THEN v ELSE prefs[g]]

\* preferences.field ?? 0
PenaltyOrZero(preferences, f) ==
  IF f \in DOMAIN preferences THEN preferences[f] ELSE 0

\* Math.max(0, preferences.field ?? 0)
clampPenalty(preferences, f) == Max(0, PenaltyOrZero(preferences, f))

\* !!preferences.disallowStairs
disallowStairsOf(preferences) == FieldIsTrue(preferences, "disallowStairs")

stairsPenalty == 0

isOutdoorNode(node) ==
  FieldIsFalse(node, "indoor") \/ FieldIsTrue(node, "outside_campus")

\* the crossing seen only when leaving an indoor node
crossesIndoorOutdoorOneWay(fromNode, toNode) ==
  FieldIsTrue(fromNode, "indoor") /\ isOutdoorNode(toNode)

crossesIndoorOutdoor(fromNode, toNode) ==
  \/ FieldIsTrue(fromNode, "indoor") /\ isOutdoorNode(toNode)
  \/ FieldIsTrue(toNode, "indoor") /\ isOutdoorNode(fromNode)

\* the outside_campus flags compared as written: undefined differs from false
crossesCampusBoundaryRaw(fromNode, toNode) ==
  LET flag(n) == IF "outside_campus" \in DOMAIN n
                 THEN (IF n["outside_campus"] THEN "true" ELSE "false")
                 ELSE Undefined
  IN flag(fromNode) # flag(toNode)

\* !!fromNode?.outside_campus !== !!toNode?.outside_campus
crossesCampusBoundary(fromNode, toNode) ==
  FieldIsTrue(fromNode, "outside_campus") # FieldIsTrue(toNode, "outside_campus")

\* edgeCost without the campus boundary penalty of routing.ts 70-76
edgeCostOfNodesNoCampus(fromNode, toNode, neighbor, outdoorPenalty, campusBoundaryPenalty) ==
  LET cost0 == neighbor.distance
               + (IF neighbor.no_stairs = FALSE THEN stairsPenalty ELSE 0)
      cost1 == cost0 + (IF outdoorPenalty > 0 /\ crossesIndoorOutdoor(fromNode, toNode)
                        THEN outdoorPenalty ELSE 0)
  IN IF cost1 > 0 THEN cost1 ELSE neighbor.distance

\* edgeCost of a traversal between two node records
edgeCostOfNodes(fromNode, toNode, neighbor, outdoorPenalty, campusBoundaryPenalty) ==
  LET cost0 == neighbor.distance
               + (IF neighbor.no_stairs = FALSE THEN stairsPenalty ELSE 0)
      cost1 == cost0 + (IF outdoorPenalty > 0 /\ crossesIndoorOutdoor(fromNode, toNode)
                        THEN outdoorPenalty ELSE 0)
      cost2 == cost1 + (IF campusBoundaryPenalty > 0
                           /\ crossesCampusBoundary(fromNode, toNode)
                        THEN campusBoundaryPenalty ELSE 0)
  IN IF cost2 > 0 THEN cost2 ELSE neighbor.distance

\* edgeCost with the penalties applied as given: neither clamped at zero
\* (routing.ts 46-47) nor tested for being positive (routing.ts 66, 70)
edgeCostUnvalidated(nodeMap, preferences, fromId, toId, neighbor) ==
  LET fromNode == nodeMapGet(nodeMap, fromId)
      toNode == nodeMapGet(nodeMap, toId)
      cost2 == neighbor.distance
               + (IF crossesIndoorOutdoor(fromNode, toNode)
                  THEN PenaltyOrZero(preferences, "outdoorPenalty") ELSE 0)
               + (IF crossesCampusBoundary(fromNode, toNode)
                  THEN PenaltyOrZero(preferences, "campusBoundaryPenalty") ELSE 0)
  IN IF cost2 > 0 THEN cost2 ELSE neighbor.distance

\* edgeCost as findShortestPath closes it over nodeMap and the clamped penalties
\* edgeCost with a negative penalty read as its magnitude instead of clamped
edgeCostMagnitude(nodeMap, preferences, fromId, toId, neighbor) ==
  LET magnitude(f) == IF PenaltyOrZero(preferences, f) < 0
                      THEN 0 - PenaltyOrZero(preferences, f)
                      ELSE PenaltyOrZero(preferences, f)
  IN edgeCostOfNodes(nodeMapGet(nodeMap, fromId), nodeMapGet(nodeMap, toId), neighbor,
                     magnitude("outdoorPenalty"), magnitude("campusBoundaryPenalty"))

edgeCost(nodeMap, preferences, fromId, toId, neighbor) ==
  edgeCostOfNodes(nodeMapGet(nodeMap, fromId), nodeMapGet(nodeMap, toId), neighbor,
                  clampPenalty(preferences, "outdoorPenalty"),
                  clampPenalty(preferences, "campusBoundaryPenalty"))

(***************************************************************************)
(* Adjacency construction (routing.ts 38-41, 81-100).                      *)
(***************************************************************************)
emptyGraph(data) == [id \in DOMAIN nodeMapOf(data) |-> <<>>]

\* addEdge without the stairs test of routing.ts 83
addEdgeKeepStairs(graph, edge, disallowStairs) ==
  LET g1 == IF edge.sourceId \in DOMAIN graph
            THEN [graph EXCEPT ![edge.sourceId] =
                    Append(@, [id |-> edge.targetId, distance |-> edge.distance,
                               no_stairs |-> edge.no_stairs])]
            ELSE graph
  IN IF edge.targetId \in DOMAIN g1
     THEN [g1 EXCEPT ![edge.targetId] =
             Append(@, [id |-> edge.sourceId, distance |-> edge.distance,
                        no_stairs |-> edge.no_stairs])]
     ELSE g1

\* addEdge with the neighbor entry registered under the source only
addEdgeDirected(graph, edge, disallowStairs) ==
  IF disallowStairs /\ edge.no_stairs = FALSE THEN graph
  ELSE IF edge.sourceId \in DOMAIN graph
       THEN [graph EXCEPT ![edge.sourceId] =
               Append(@, [id |-> edge.targetId, distance |-> edge.distance,
                          no_stairs |-> edge.no_stairs])]
       ELSE graph

\* addEdge making an adjacency list for an endpoint that has none
addEdgeCreatingLists(graph, edge, disallowStairs) ==
  IF disallowStairs /\ edge.no_stairs = FALSE THEN graph
  ELSE
    LET listOf(g, id) == IF id \in DOMAIN g THEN g[id] ELSE <<>>
        push(g, at, to) ==
          [id \in DOMAIN g \cup {at} |->
             IF id = at
             THEN Append(listOf(g, at), [id |-> to, distance |-> edge.distance,
                                         no_stairs |-> edge.no_stairs])
             ELSE g[id]]
    IN push(push(graph, edge.sourceId, edge.targetId), edge.targetId, edge.sourceId)

\* one iteration of data.edges.forEach
addEdge(graph, edge, disallowStairs) ==
  IF disallowStairs /\ edge.no_stairs = FALSE THEN graph
  ELSE
    LET g1 == IF edge.sourceId \in DOMAIN graph
              THEN [graph EXCEPT ![edge.sourceId] =
                      Append(@, [id |-> edge.targetId, distance |-> edge.distance,
                                 no_stairs |-> edge.no_stairs])]
              ELSE graph
    IN IF edge.targetId \in DOMAIN g1
       THEN [g1 EXCEPT ![edge.targetId] =
               Append(@, [id |-> edge.sourceId, distance |-> edge.distance,
                          no_stairs |-> edge.no_stairs])]
       ELSE g1

RECURSIVE addEdges(_, _, _, _)
addEdges(graph, edges, k, disallowStairs) ==
  IF k > Len(edges) THEN graph
  ELSE addEdges(addEdge(graph, edges[k], disallowStairs), edges, k + 1, disallowStairs)

buildGraph(data, preferences) ==
  addEdges(emptyGraph(data), data.edges, 1, disallowStairsOf(preferences))

(***************************************************************************)
(* The search loop (routing.ts 103-138).                                   *)
(***************************************************************************)
\* the largest array the model lets path grow to before the engine gives up
MaxArrayLen(call) == Len(call.data.nodes) + 2

\* id put into a list sorted by distance, behind every entry not greater than it
RECURSIVE insertSorted(_, _, _)
insertSorted(sorted, id, distances) ==
  IF sorted = <<>> THEN <<id>>
  ELSE IF NumLess(distances[id], distances[Head(sorted)]) THEN <<id>> \o sorted
  ELSE <<Head(sorted)>> \o insertSorted(Tail(sorted), id, distances)

RECURSIVE sortFrom(_, _, _, _)
sortFrom(sorted, pq, k, distances) ==
  IF k > Len(pq) THEN sorted
  ELSE sortFrom(insertSorted(sorted, pq[k], distances), pq, k + 1, distances)

\* the queue left as it is: the sort of routing.ts 117 dropped
sortPQUnsorted(pq, distances) == pq

\* pq.sort((a, b) => distances[a] - distances[b]): stable; Infinity - Infinity is
\* NaN, which the sort reads as "equal"
sortPQ(pq, distances) == sortFrom(<<>>, pq, 1, distances)

\* the loop body without the test `alt < distances[neighbor.id]`
RECURSIVE relaxUnconditional(_, _, _, _, _)
relaxUnconditional(st, call, shortestNodeId, neighbors, k) ==
  IF k > Len(neighbors) THEN st
  ELSE
    LET neighbor == neighbors[k]
    IN IF neighbor.id \notin DOMAIN st.distances
       THEN relaxUnconditional(st, call, shortestNodeId, neighbors, k + 1)
       ELSE
         LET alt == st.distances[shortestNodeId]
                    + edgeCost(call.nodeMap, call.preferences,
                               shortestNodeId, neighbor.id, neighbor)
         IN relaxUnconditional(
              [st EXCEPT !.distances[neighbor.id] = alt,
                         !.previous = [id \in DOMAIN st.previous \cup {neighbor.id}
                                         |-> IF id = neighbor.id
                                             THEN shortestNodeId
                                             ELSE st.previous[id]]],
              call, shortestNodeId, neighbors, k + 1)

\* the loop body with previous[neighbor.id] written before the test of alt
RECURSIVE relaxPointerAlways(_, _, _, _, _)
relaxPointerAlways(st, call, shortestNodeId, neighbors, k) ==
  IF k > Len(neighbors) THEN st
  ELSE
    LET neighbor == neighbors[k]
    IN IF neighbor.id \notin DOMAIN st.distances
       THEN relaxPointerAlways(st, call, shortestNodeId, neighbors, k + 1)
       ELSE
         LET alt == st.distances[shortestNodeId]
                    + edgeCost(call.nodeMap, call.preferences,
                               shortestNodeId, neighbor.id, neighbor)
             pointed == [st EXCEPT !.previous =
                           [id \in DOMAIN st.previous \cup {neighbor.id}
                              |-> IF id = neighbor.id THEN shortestNodeId
                                  ELSE st.previous[id]]]
         IN IF NumLess(alt, st.distances[neighbor.id])
            THEN relaxPointerAlways([pointed EXCEPT !.distances[neighbor.id] = alt],
                                    call, shortestNodeId, neighbors, k + 1)
            ELSE relaxPointerAlways(pointed, call, shortestNodeId, neighbors, k + 1)

\* the body of `for (const neighbor of neighbors)` for neighbor k and after
RECURSIVE relax(_, _, _, _, _)
relax(st, call, shortestNodeId, neighbors, k) ==
  IF k > Len(neighbors) THEN st
  ELSE
    LET neighbor == neighbors[k]
    IN IF neighbor.id \notin DOMAIN st.distances
       THEN relax(st, call, shortestNodeId, neighbors, k + 1)
       ELSE
         LET alt == st.distances[shortestNodeId]
                    + edgeCost(call.nodeMap, call.preferences,
                               shortestNodeId, neighbor.id, neighbor)
         IN IF NumLess(alt, st.distances[neighbor.id])
            THEN relax([st EXCEPT !.distances[neighbor.id] = alt,
                                  !.previous = [id \in DOMAIN st.previous \cup {neighbor.id}
                                                  |-> IF id = neighbor.id
                                                      THEN shortestNodeId
                                                      ELSE st.previous[id]]],
                       call, shortestNodeId, neighbors, k + 1)
            ELSE relax(st, call, shortestNodeId, neighbors, k + 1)

\* the arguments of a call with what the function derives from them once
callOf(data, startId, endId, preferences) ==
  [data |-> data, startId |-> startId, endId |-> endId, preferences |-> preferences,
   nodeMap |-> nodeMapOf(data), graph |-> buildGraph(data, preferences)]

\* the locals when the while loop is first reached (routing.ts 103-113)
initLocals(call) ==
  LET ids == DOMAIN call.nodeMap
  IN [distances |-> [id \in ids \cup {call.startId} |->
                       IF id = call.startId THEN 0 ELSE Infinity],
      previous |-> [id \in ids |-> Null],
      pq |-> [i \in DOMAIN call.data.nodes |-> call.data.nodes[i].id],
      pc |-> "search",
      path |-> <<>>,
      u |-> call.endId,
      result |-> [kind |-> "pending", path |-> <<>>]]

\* one iteration of the while loop, from its test to the end of its body
searchStep(st, call) ==
  IF Len(st.pq) = 0 THEN [st EXCEPT !.pc = "reconstruct"]
  ELSE
    LET sorted == sortPQ(st.pq, st.distances)
        shortestNodeId == Head(sorted)
        shifted == [st EXCEPT !.pq = Tail(sorted)]
    IN IF shortestNodeId = call.endId THEN [shifted EXCEPT !.pc = "reconstruct"]
       ELSE IF st.distances[shortestNodeId] = Infinity
            THEN [shifted EXCEPT !.pc = "reconstruct"]
       ELSE IF shortestNodeId \notin DOMAIN call.graph THEN shifted
       ELSE relax(shifted, call, shortestNodeId, call.graph[shortestNodeId], 1)

(***************************************************************************)
(* Path reconstruction and the return (routing.ts 140-151).                *)
(***************************************************************************)
\* previous[u], undefined for a key the object lacks
previousOf(previous, u) == IF u \in DOMAIN previous THEN previous[u] ELSE Undefined

NullResult == [kind |-> "null", path |-> <<>>]
PathResult(path) == [kind |-> "path", path |-> path]
\* the call never returns: the walk goes on until the array cannot grow
NoResult == [kind |-> "none", path |-> <<>>]

\* return path, the empty list included
returnOfAnyPath(path) == [kind |-> "path", path |-> path]

\* return path.length > 0 ? path : null
returnOf(path) == IF Len(path) > 0 THEN PathResult(path) ELSE NullResult

\* the walk entered without the test of routing.ts 144
reconstructStepUnguarded(st, call) == [st EXCEPT !.pc = "walk"]

\* the test of routing.ts 144 without `|| u === startId`
reconstructStepNoStartCase(st, call) ==
  IF previousOf(st.previous, st.u) # Null
  THEN [st EXCEPT !.pc = "walk"]
  ELSE [st EXCEPT !.pc = "done", !.result = returnOf(st.path)]

\* if (previous[u] !== null || u === startId), with u = endId
reconstructStep(st, call) ==
  IF previousOf(st.previous, st.u) # Null \/ st.u = call.startId
  THEN [st EXCEPT !.pc = "walk"]
  ELSE [st EXCEPT !.pc = "done", !.result = returnOf(st.path)]

\* the walk with path.push(u) in place of path.unshift(u)
walkStepPushing(st, call) ==
  IF st.u = Null THEN [st EXCEPT !.pc = "done", !.result = returnOf(st.path)]
  ELSE IF Len(st.path) >= MaxArrayLen(call) THEN [st EXCEPT !.pc = "crashed", !.result = NoResult]
  ELSE [st EXCEPT !.path = Append(st.path, st.u), !.u = previousOf(st.previous, st.u)]

\* the test and one iteration of `while (u !== null)`
walkStep(st, call) ==
  IF st.u = Null THEN [st EXCEPT !.pc = "done", !.result = returnOf(st.path)]
  ELSE IF Len(st.path) >= MaxArrayLen(call) THEN [st EXCEPT !.pc = "crashed", !.result = NoResult]
  ELSE [st EXCEPT !.path = <<st.u>> \o st.path, !.u = previousOf(st.previous, st.u)]

stepOf(st, call) ==
  CASE st.pc = "search" -> searchStep(st, call)
    [] st.pc = "reconstruct" -> reconstructStep(st, call)
    [] st.pc = "walk" -> walkStep(st, call)
    [] OTHER -> st

RECURSIVE runFrom(_, _)
runFrom(st, call) ==
  IF st.pc \in {"done", "crashed"} THEN st.result ELSE runFrom(stepOf(st, call), call)

\* findShortestPath(data, startId, endId, preferences) as a function of its arguments
findShortestPath(data, startId, endId, preferences) ==
  LET call == callOf(data, startId, endId, preferences)
  IN runFrom(initLocals(call), call)

(***************************************************************************)
(* The earlier findShortestPath(data, startId, endId) (routing.ts          *)
(* 163-240).                                                               *)
(***************************************************************************)
\* graph[a][b] = d for a key b the object may hold already; an object is the
\* list of its entries in the order the keys were first written
legacySet(graph, a, b, d) ==
  LET at == {i \in DOMAIN graph[a] : graph[a][i].id = b}
  IN IF at = {}
     THEN [graph EXCEPT ![a] = Append(@, [id |-> b, distance |-> d])]
     ELSE [graph EXCEPT ![a] = [i \in DOMAIN @ |->
                                  IF i \in at THEN [id |-> b, distance |-> d] ELSE @[i]]]

\* if (!graph[id]) graph[id] = {}
legacyEnsure(graph, id) ==
  IF id \in DOMAIN graph THEN graph
  ELSE [k \in DOMAIN graph \cup {id} |-> IF k = id THEN <<>> ELSE graph[k]]

\* graph[a][b] !== undefined
legacyHas(graph, a, b) == \E i \in DOMAIN graph[a] : graph[a][i].id = b

\* graph[a][b], for a key the object holds
legacyGet(graph, a, b) ==
  graph[a][CHOOSE i \in DOMAIN graph[a] : graph[a][i].id = b].distance

\* one iteration of data.edges.forEach with the longest of parallel edges kept
legacyAddEdgeKeepLongest(graph, edge) ==
  LET g0 == legacyEnsure(legacyEnsure(graph, edge.sourceId), edge.targetId)
      g1 == IF ~legacyHas(g0, edge.sourceId, edge.targetId)
               \/ edge.distance > legacyGet(g0, edge.sourceId, edge.targetId)
            THEN legacySet(g0, edge.sourceId, edge.targetId, edge.distance)
            ELSE g0
  IN IF ~legacyHas(g1, edge.targetId, edge.sourceId)
        \/ edge.distance > legacyGet(g1, edge.targetId, edge.sourceId)
     THEN legacySet(g1, edge.targetId, edge.sourceId, edge.distance)
     ELSE g1

\* one iteration of data.edges.forEach (routing.ts 170-188)
legacyAddEdge(graph, edge) ==
  LET g0 == legacyEnsure(legacyEnsure(graph, edge.sourceId), edge.targetId)
      g1 == IF ~legacyHas(g0, edge.sourceId, edge.targetId)
               \/ edge.distance < legacyGet(g0, edge.sourceId, edge.targetId)
            THEN legacySet(g0, edge.sourceId, edge.targetId, edge.distance)
            ELSE g0
  IN IF ~legacyHas(g1, edge.targetId, edge.sourceId)
        \/ edge.distance < legacyGet(g1, edge.targetId, edge.sourceId)
     THEN legacySet(g1, edge.targetId, edge.sourceId, edge.distance)
     ELSE g1

RECURSIVE legacyAddEdges(_, _, _)
legacyAddEdges(graph, edges, k) ==
  IF k > Len(edges) THEN graph
  ELSE legacyAddEdges(legacyAddEdge(graph, edges[k]), edges, k + 1)

\* the ids of data.nodes
idsOfNodes(data) == {data.nodes[i].id : i \in DOMAIN data.nodes}

\* the adjacency object (routing.ts 165-188)
legacyGraph(data) == legacyAddEdges([id \in idsOfNodes(data) |-> <<>>], data.edges, 1)

\* the body of `for (const neighborId in neighbors)` for entry k and after;
\* `alt < distances[neighborId]` is false for a key distances lacks
RECURSIVE legacyRelax(_, _, _, _)
legacyRelax(st, shortestNodeId, neighbors, k) ==
  IF k > Len(neighbors) THEN st
  ELSE
    LET neighborId == neighbors[k].id
        alt == st.distances[shortestNodeId] + neighbors[k].distance
    IN IF neighborId \in DOMAIN st.distances /\ NumLess(alt, st.distances[neighborId])
       THEN legacyRelax([st EXCEPT !.distances[neighborId] = alt,
                                   !.previous = [id \in DOMAIN st.previous \cup {neighborId}
                                                   |-> IF id = neighborId
                                                       THEN shortestNodeId
                                                       ELSE st.previous[id]]],
                        shortestNodeId, neighbors, k + 1)
       ELSE legacyRelax(st, shortestNodeId, neighbors, k + 1)

\* the arguments of a call of the earlier function with its adjacency object
legacyCallOf(data, startId, endId) ==
  [data |-> data, startId |-> startId, endId |-> endId, graph |-> legacyGraph(data)]

\* the locals when the while loop is first reached (routing.ts 191-199)
legacyInitLocals(call) ==
  LET ids == idsOfNodes(call.data)
  IN [distances |-> [id \in ids \cup {call.startId} |->
                       IF id = call.startId THEN 0 ELSE Infinity],
      previous |-> [id \in ids |-> Null],
      pq |-> [i \in DOMAIN call.data.nodes |-> call.data.nodes[i].id],
      pc |-> "search",
      path |-> <<>>,
      u |-> call.endId,
      result |-> [kind |-> "pending", path |-> <<>>]]

\* one iteration of `while (pq.length > 0)` (routing.ts 201-226)
legacySearchStep(st, call) ==
  IF Len(st.pq) = 0 THEN [st EXCEPT !.pc = "reconstruct"]
  ELSE
    LET sorted == sortPQ(st.pq, st.distances)
        shortestNodeId == Head(sorted)
        shifted == [st EXCEPT !.pq = Tail(sorted)]
    IN IF shortestNodeId = call.endId THEN [shifted EXCEPT !.pc = "reconstruct"]
       ELSE IF st.distances[shortestNodeId] = Infinity
            THEN [shifted EXCEPT !.pc = "reconstruct"]
       ELSE IF shortestNodeId \notin DOMAIN call.graph THEN shifted
       ELSE legacyRelax(shifted, shortestNodeId, call.graph[shortestNodeId], 1)

\* the reconstruction of routing.ts 229-239 has the text of 140-151
legacyStepOf(st, call) ==
  CASE st.pc = "search" -> legacySearchStep(st, call)
    [] st.pc = "reconstruct" -> reconstructStep(st, call)
    [] st.pc = "walk" -> walkStep(st, call)
    [] OTHER -> st

RECURSIVE legacyRunFrom(_, _)
legacyRunFrom(st, call) ==
  IF st.pc \in {"done", "crashed"} THEN st.result
  ELSE legacyRunFrom(legacyStepOf(st, call), call)

\* the earlier findShortestPath(data, startId, endId) as a function of its
\* arguments
legacyFindShortestPath(data, startId, endId) ==
  LET call == legacyCallOf(data, startId, endId)
  IN legacyRunFrom(legacyInitLocals(call), call)

(***************************************************************************)
(* Spec: one call of findShortestPath on a graph over NodeIds.             *)
(***************************************************************************)
VARIABLES
  data,         \* the GraphData argument
  startId,      \* the startId argument
  endId,        \* the endId argument
  preferences,  \* the preferences argument
  distances,    \* routing.ts 103
  previous,     \* routing.ts 104
  pq,           \* routing.ts 105
  path,         \* routing.ts 141
  u,            \* routing.ts 142
  pc,           \* where the call is: search, reconstruct, walk, done, crashed
  result,       \* what the call returned
  returned      \* SpecCalls: the calls that have returned, oldest first

solverVars == <<data, startId, endId, preferences, distances, previous, pq, path, u,
                pc, result, returned>>

\* SpecCost: one call of edgeCost
VARIABLES
  fromNode,     \* nodeMap.get(fromId)
  toNode,       \* nodeMap.get(toId)
  neighbor,     \* the Neighbor entry traversed
  costPrefs,    \* the preferences of the enclosing findShortestPath call
  cost,         \* what edgeCost returned
  costPc        \* ready, done

costVars == <<fromNode, toNode, neighbor, costPrefs, cost, costPc>>

\* SpecNav: NavigationScreen
VARIABLES
  graphData,             \* navigation.tsx 12
  avoidStairs,           \* useSettings (navigation.tsx 19)
  minimizeOutdoorPaths,  \* useSettings (navigation.tsx 20)
  wheelchairUser,        \* useSettings (navigation.tsx 22)
  mode,                  \* navigation.tsx 29
  activeInput,           \* navigation.tsx 42
  selectedNode,          \* navigation.tsx 37: a node id or null
  startNode,             \* navigation.tsx 38: a node id or null
  endNode,               \* navigation.tsx 39: a node id or null
  routePath,             \* navigation.tsx 45
  currentStepIndex,      \* navigation.tsx 47
  routeEffectDue,        \* the dependencies of the effect of line 158 changed
  boundsEffectDue,       \* the dependencies of the effect of line 200 changed
  routeRun               \* the solver calls of the last run of the effect of line 158

navVars == <<graphData, avoidStairs, minimizeOutdoorPaths, wheelchairUser, mode,
             activeInput, selectedNode, startNode, endNode, routePath,
             currentStepIndex, routeEffectDue, boundsEffectDue, routeRun>>

vars == <<solverVars, costVars, navVars>>

\* the variables of a specification that does not use them
SolverUnused ==
  /\ data = [nodes |-> <<>>, edges |-> <<>>]
  /\ startId = Null /\ endId = Null /\ preferences = <<>>
  /\ distances = <<>> /\ previous = <<>> /\ pq = <<>> /\ path = <<>>
  /\ u = Null /\ pc = "unused" /\ result = NullResult
  /\ returned = <<>>
CostUnused ==
  /\ fromNode = UndefinedNode /\ toNode = UndefinedNode
  /\ neighbor = <<>> /\ costPrefs = <<>> /\ cost = 0 /\ costPc = "unused"
NoRun == [ran |-> FALSE, calls |-> <<>>]
NavUnused ==
  /\ graphData = [nodes |-> <<>>, edges |-> <<>>]
  /\ avoidStairs = FALSE /\ minimizeOutdoorPaths = FALSE /\ wheelchairUser = FALSE
  /\ mode = "unused" /\ activeInput = Null
  /\ selectedNode = Null /\ startNode = Null /\ endNode = Null
  /\ routePath = <<>> /\ currentStepIndex = 0
  /\ routeEffectDue = FALSE /\ boundsEffectDue = FALSE /\ routeRun = NoRun

\* the nodes of the solver's graphs: A indoor, B outdoor, C off campus
SolverNodes ==
  <<[id |-> "A", indoor |-> TRUE],
    [id |-> "B", indoor |-> FALSE],
    [id |-> "C", outside_campus |-> TRUE]>>

Distances == {1, MaxDist}

\* every edge a solver graph may hold, in a fixed order
EdgeChoices ==
  LET pairs == {<<i, j>> \in (1..NumNodes) \X (1..NumNodes) : i < j}
  IN {[sourceId |-> NodeIds[p[1]], targetId |-> NodeIds[p[2]], distance |-> d,
       no_stairs |-> s] : p \in pairs, d \in Distances, s \in BOOLEAN}
     \cup {[sourceId |-> NodeIds[1], targetId |-> AbsentId, distance |-> 1,
            no_stairs |-> TRUE],
           [sourceId |-> AbsentId, targetId |-> NodeIds[NumNodes], distance |-> 1,
            no_stairs |-> TRUE]}

RECURSIVE SeqOfSet(_)
SeqOfSet(S) ==
  IF S = {} THEN <<>>
  ELSE LET e == CHOOSE x \in S : TRUE IN <<e>> \o SeqOfSet(S \ {e})

\* the edge lists: up to MaxEdges distinct edges
EdgeLists ==
  {SeqOfSet(S) : S \in {T \in SUBSET EdgeChoices : Cardinality(T) <= MaxEdges}}

\* the preferences of a call: each penalty negative, zero or positive
SolverPreferences ==
  [disallowStairs : BOOLEAN, outdoorPenalty : {-MaxPenalty, 0, MaxPenalty},
   campusBoundaryPenalty : {-MaxPenalty, 0, MaxPenalty}]

Locals == [distances |-> distances, previous |-> previous, pq |-> pq, pc |-> pc,
           path |-> path, u |-> u, result |-> result]
Call == callOf(data, startId, endId, preferences)

AssignLocals(st) ==
  /\ distances = st.distances
  /\ previous = st.previous
  /\ pq = st.pq
  /\ pc = st.pc
  /\ path = st.path
  /\ u = st.u
  /\ result = st.result

Assign(st) ==
  /\ distances' = st.distances
  /\ previous' = st.previous
  /\ pq' = st.pq
  /\ pc' = st.pc
  /\ path' = st.path
  /\ u' = st.u
  /\ result' = st.result
  /\ UNCHANGED <<data, startId, endId, preferences, returned>>
  /\ UNCHANGED <<costVars, navVars>>

Init ==
  /\ data \in [nodes : {SolverNodes}, edges : EdgeLists]
  /\ startId \in NodeIdSet \cup {AbsentId}
  /\ endId \in NodeIdSet \cup {AbsentId}
  /\ preferences \in SolverPreferences
  /\ \E call \in {Call} : \E st \in {initLocals(call)} : AssignLocals(st)
  /\ returned = <<>>
  /\ CostUnused
  /\ NavUnused

\* one iteration of the while loop (routing.ts 115-138)
SearchStep == pc = "search" /\ Assign(searchStep(Locals, Call))
\* the test that guards the walk (routing.ts 144)
ReconstructStep == pc = "reconstruct" /\ Assign(reconstructStep(Locals, Call))
\* one iteration of the walk along previous, or its end and the return (145-151)
WalkStep == pc = "walk" /\ Assign(walkStep(Locals, Call))

Next == SearchStep \/ ReconstructStep \/ WalkStep

Spec == Init /\ [][Next]_vars

(***************************************************************************)
(* What the claims about the solver speak of, defined from the graph and   *)
(* the cost function alone.                                                *)
(***************************************************************************)
\* an edge the stairs preference does not exclude
Admissible(edge) == ~(disallowStairsOf(preferences) /\ edge.no_stairs = FALSE)

\* the edges of data that join nodes a and b, in either direction
EdgesJoining(a, b) ==
  {k \in DOMAIN data.edges :
     \/ data.edges[k].sourceId = a /\ data.edges[k].targetId = b
     \/ data.edges[k].sourceId = b /\ data.edges[k].targetId = a}

AdmissibleJoining(a, b) == {k \in EdgesJoining(a, b) : Admissible(data.edges[k])}

CostOfEdge(a, b, k) == edgeCost(nodeMapOf(data), preferences, a, b, data.edges[k])

MinNum(a, b) == IF NumLess(a, b) THEN a ELSE b
AddNum(a, b) == IF a = Infinity \/ b = Infinity THEN Infinity ELSE a + b

RECURSIVE MinOver(_)
MinOver(S) ==
  IF S = {} THEN Infinity
  ELSE LET x == CHOOSE y \in S : TRUE IN MinNum(x, MinOver(S \ {x}))

\* the cost of going from a to b over the cheapest admissible edge
CheapestEdgeCost(a, b) == MinOver({CostOfEdge(a, b, k) : k \in AdmissibleJoining(a, b)})

RECURSIVE PathCostFrom(_, _)
PathCostFrom(p, i) ==
  IF i >= Len(p) THEN 0
  ELSE AddNum(CheapestEdgeCost(p[i], p[i + 1]), PathCostFrom(p, i + 1))

\* the total cost of a path
PathCost(p) == PathCostFrom(p, 1)

\* the least cost of a walk of at most k admissible edges from startId to each node
RECURSIVE LeastCost(_)
LeastCost(k) ==
  IF k = 0 THEN [n \in NodeIdSet |-> IF n = startId THEN 0 ELSE Infinity]
  ELSE LET before == LeastCost(k - 1)
       IN [n \in NodeIdSet |->
             MinNum(before[n],
                    MinOver({AddNum(before[m], CheapestEdgeCost(m, n)) : m \in NodeIdSet}))]

\* the least cost of any start-to-end path over admissible edges (Infinity: none)
Optimal == LeastCost(NumNodes - 1)[endId]

EndpointsPresent == startId \in NodeIdSet /\ endId \in NodeIdSet
Connected == EndpointsPresent /\ Optimal # Infinity

\* C1: when startId and endId are nodes joined through admissible edges, the call
\* returns a path whose total cost is the least cost of any start-to-end path over
\* admissible edges.
C1_OptimalPath ==
  (pc = "done" /\ Connected) =>
     /\ result.kind = "path"
     /\ PathCost(result.path) = Optimal

\* a run where a direct admissible edge from start to end exists and costs more
\* than the returned three-node path
C1_Witness ==
  /\ pc = "done" /\ Connected
  /\ result.kind = "path" /\ Len(result.path) = NumNodes
  /\ AdmissibleJoining(startId, endId) # {}
  /\ NumLess(PathCost(result.path), CheapestEdgeCost(startId, endId))

\* C2: with disallowStairs set, every two consecutive nodes of a returned path are
\* joined by an edge of the graph whose no_stairs is not false.
C2_NoStairsOnPath ==
  (pc = "done" /\ result.kind = "path" /\ disallowStairsOf(preferences)) =>
     \A i \in 1..(Len(result.path) - 1) :
        \E k \in EdgesJoining(result.path[i], result.path[i + 1]) :
           data.edges[k].no_stairs # FALSE

\* a returned path one of whose steps has a parallel stairs edge that is shorter
\* than the edge without stairs
C2_Witness ==
  /\ pc = "done" /\ result.kind = "path" /\ disallowStairsOf(preferences)
  /\ \E i \in 1..(Len(result.path) - 1) :
        \E k, m \in EdgesJoining(result.path[i], result.path[i + 1]) :
           /\ data.edges[k].no_stairs = FALSE
           /\ data.edges[m].no_stairs = TRUE
           /\ data.edges[k].distance < data.edges[m].distance

\* C3: a call whose startId or endId is the id of no node ends, returns null and
\* does not fail.
C3_MissingEndpointIsNoPath ==
  ~EndpointsPresent =>
     /\ pc # "crashed"
     /\ pc = "done" => result = NullResult

\* the part of C3 the code keeps: a missing startId with endId a node gives null
C3_MissingStartIsNoPath ==
  (startId \notin NodeIdSet /\ endId \in NodeIdSet) =>
     /\ pc # "crashed"
     /\ pc = "done" => result = NullResult

\* C4: for distinct nodes startId and endId that no admissible path joins the call
\* returns null and does not fail, and the search never goes on past a node it
\* extracted with distance Infinity.
C4_UnreachableIsNull ==
  (EndpointsPresent /\ startId # endId /\ Optimal = Infinity) =>
     /\ pc # "crashed"
     /\ pc = "done" => result = NullResult
     /\ pc = "search" =>
          \A n \in NodeIdSet :
             (\A i \in DOMAIN pq : pq[i] # n) => distances[n] # Infinity

\* null returned for two nodes that the edges join, but only through stairs
C4_Witness ==
  /\ pc = "done" /\ result = NullResult
  /\ EndpointsPresent /\ startId # endId /\ Optimal = Infinity
  /\ disallowStairsOf(preferences)
  /\ EdgesJoining(startId, endId) # {}

\* the call has ended: it returned, or its walk ran until the array could not grow
Ended == pc \in {"done", "crashed"}

\* the preferences with every negative penalty set to 0
PenaltiesAtLeastZero ==
  [preferences EXCEPT !.outdoorPenalty = IF @ < 0 THEN 0 ELSE @,
                      !.campusBoundaryPenalty = IF @ < 0 THEN 0 ELSE @]

HasNegativePenalty ==
  preferences.outdoorPenalty < 0 \/ preferences.campusBoundaryPenalty < 0

\* C11: a call with a negative outdoorPenalty or campusBoundaryPenalty ends as the
\* call with that penalty set to 0 does, with the same result: the negative value
\* is clamped and is no cause of an error.
C11_NegativePenaltyClamped ==
  (Ended /\ HasNegativePenalty) =>
     result = findShortestPath(data, startId, endId, PenaltiesAtLeastZero)

\* a call with a negative penalty returned a path that goes through the indoor
\* node, where either penalty applies
C11_Witness ==
  /\ pc = "done"
  /\ HasNegativePenalty
  /\ result.kind = "path" /\ Len(result.path) = 3
  /\ result.path[2] = "A"

\* data with the sourceId and the targetId of edge k swapped
WithEdgeSwapped(k) ==
  [data EXCEPT !.edges[k] = [sourceId |-> data.edges[k].targetId,
                             targetId |-> data.edges[k].sourceId,
                             distance |-> data.edges[k].distance,
                             no_stairs |-> data.edges[k].no_stairs]]

\* two results agree on whether a path exists and on the path's total cost
SameReachAndCost(r1, r2) ==
  /\ (r1.kind = "path") <=> (r2.kind = "path")
  /\ r1.kind = "path" => PathCost(r1.path) = PathCost(r2.path)

\* C13: for nodes s and t, the call from s to t finds a path exactly when the call
\* from t to s does, with the same total cost; and swapping the sourceId and the
\* targetId of any edge changes neither whether a path is found nor its total cost.
C13_Undirected ==
  (pc = "done" /\ EndpointsPresent) =>
     /\ SameReachAndCost(result, findShortestPath(data, endId, startId, preferences))
     /\ \A k \in DOMAIN data.edges :
          SameReachAndCost(result,
                           findShortestPath(WithEdgeSwapped(k), startId, endId, preferences))

\* a returned path of two steps, each over an edge recorded only in the direction
\* opposite to the walk
C13_Witness ==
  /\ pc = "done"
  /\ result.kind = "path" /\ Len(result.path) = 3
  /\ \A i \in 1..2 :
       \A k \in DOMAIN data.edges :
          ~(data.edges[k].sourceId = result.path[i]
            /\ data.edges[k].targetId = result.path[i + 1])

\* an edge with an endpoint that is the id of no node
Dangling(edge) == edge.sourceId \notin NodeIdSet \/ edge.targetId \notin NodeIdSet

NotDangling(edge) == ~Dangling(edge)

\* data with its dangling edges deleted
WithoutDangling == [data EXCEPT !.edges = SelectSeq(data.edges, NotDangling)]

NamesNode(entry) == entry.id \in NodeIdSet

C15_TrivialRoute ==
  (startId = endId /\ startId \in NodeIdSet) =>
     /\ pc # "crashed"
     /\ pc = "done" => result = PathResult(<<startId>>)

\* a call from a node to itself returned, with a plain edge, a stairs edge and a
\* dangling edge at that node
C15_Witness ==
  /\ pc = "done"
  /\ startId = "A" /\ endId = "A"
  /\ result.path = <<"A">>
  /\ \E k \in DOMAIN data.edges : data.edges[k].sourceId = "A" /\ data.edges[k].no_stairs
                                     /\ data.edges[k].targetId \in NodeIdSet
  /\ \E k \in DOMAIN data.edges : data.edges[k].sourceId = "A" /\ ~data.edges[k].no_stairs
  /\ \E k \in DOMAIN data.edges : data.edges[k].targetId = AbsentId

\* C16: every result the call returns is null or a list of at least one id that
\* starts with startId and ends with endId, of length 1 only when startId = endId;
\* an empty list is never returned.
C16_ResultShape ==
  pc = "done" =>
     /\ result.kind \in {"path", "null"}
     /\ result.kind = "null" => result.path = <<>>
     /\ result.kind = "path" =>
          /\ Len(result.path) >= 1
          /\ result.path[1] = startId
          /\ result.path[Len(result.path)] = endId
          /\ Len(result.path) = 1 => startId = endId

\* a returned path of three nodes between two different nodes
C16_Witness ==
  /\ pc = "done"
  /\ result.kind = "path" /\ Len(result.path) = 3
  /\ startId # endId
  /\ result.path[1] = startId /\ result.path[3] = endId

(***************************************************************************)
(* SpecCost: edgeCost applied to every pair of node flag settings, every   *)
(* edge and every preference value.                                        *)
(***************************************************************************)
\* a node with each of indoor and outside_campus true, false or not given
FlagSettings(id) ==
  [id : {id}, indoor : BOOLEAN, outside_campus : BOOLEAN]
    \cup [id : {id}, indoor : BOOLEAN]
    \cup [id : {id}, outside_campus : BOOLEAN]
    \cup [id : {id}]

\* a penalty not given, negative, zero or positive
PenaltyValues == {-MaxPenalty, 0, MaxPenalty}
CostPreferences ==
  [outdoorPenalty : PenaltyValues, campusBoundaryPenalty : PenaltyValues]
    \cup [outdoorPenalty : PenaltyValues]
    \cup [campusBoundaryPenalty : PenaltyValues]
    \cup {[disallowStairs |-> FALSE]}

InitCost ==
  /\ fromNode \in FlagSettings(NodeIds[1])
  /\ toNode \in FlagSettings(NodeIds[2])
  /\ neighbor \in [id : {NodeIds[2]}, distance : Distances, no_stairs : BOOLEAN]
  /\ costPrefs \in CostPreferences
  /\ cost = 0
  /\ costPc = "ready"
  /\ SolverUnused
  /\ NavUnused

\* edgeCost(fromId, toId, neighbor) inside a call with preferences prefs
costUnder(prefs) ==
  edgeCost(nodeMapOf([nodes |-> <<fromNode, toNode>>, edges |-> <<>>]), prefs,
           fromNode.id, toNode.id, neighbor)

\* the call of edgeCost (routing.ts 52-79)
ApplyEdgeCost ==
  /\ costPc = "ready"
  /\ cost' = costUnder(costPrefs)
  /\ costPc' = "done"
  /\ UNCHANGED <<fromNode, toNode, neighbor, costPrefs>>
  /\ UNCHANGED <<solverVars, navVars>>

NextCost == ApplyEdgeCost

SpecCost == InitCost /\ [][NextCost]_vars

\* the penalty the caller asked for (0 when not given)
Asked(f) == IF f \in DOMAIN costPrefs THEN costPrefs[f] ELSE 0

\* what the outdoor penalty added to the returned cost
OutdoorAdded == cost - costUnder(WithField(costPrefs, "outdoorPenalty", 0))
\* what the campus-boundary penalty added to the returned cost
CampusAdded == cost - costUnder(WithField(costPrefs, "campusBoundaryPenalty", 0))

ClaimIndoor(n) == "indoor" \in DOMAIN n /\ n.indoor = TRUE
ClaimOutdoor(n) ==
  \/ "indoor" \in DOMAIN n /\ n.indoor = FALSE
  \/ "outside_campus" \in DOMAIN n /\ n.outside_campus = TRUE
\* exactly one of the two nodes is indoor, and the other one is outdoor
ExactlyOneIndoorOtherOutdoor ==
  \/ ClaimIndoor(fromNode) /\ ~ClaimIndoor(toNode) /\ ClaimOutdoor(toNode)
  \/ ClaimIndoor(toNode) /\ ~ClaimIndoor(fromNode) /\ ClaimOutdoor(fromNode)

\* C8: outdoorPenalty is added to the cost exactly when it is positive and exactly
\* one node is indoor while the other is outdoor; never between two nodes that
\* both have indoor === true, nor between two outdoor nodes.
C8_OutdoorPenaltyRule ==
  costPc = "done" =>
     OutdoorAdded = (IF Asked("outdoorPenalty") > 0 /\ ExactlyOneIndoorOtherOutdoor
                     THEN Asked("outdoorPenalty") ELSE 0)

\* C9: campusBoundaryPenalty is added to the cost exactly when it is positive and
\* the outside_campus flags of the two nodes differ, a flag not given counting as
\* false; it is added once, whatever the outdoor penalty is.
C9_CampusPenaltyRule ==
  costPc = "done" =>
     LET outsideFrom == "outside_campus" \in DOMAIN fromNode /\ fromNode.outside_campus
         outsideTo == "outside_campus" \in DOMAIN toNode /\ toNode.outside_campus
         expected == IF Asked("campusBoundaryPenalty") > 0 /\ outsideFrom # outsideTo
                     THEN Asked("campusBoundaryPenalty") ELSE 0
     IN /\ CampusAdded = expected
        /\ \A p \in PenaltyValues :
              LET other == WithField(costPrefs, "outdoorPenalty", p)
              IN costUnder(other)
                   - costUnder(WithField(other, "campusBoundaryPenalty", 0)) = expected

\* a crossing from an off-campus node to a node without the flag, with both
\* penalties positive and both added
C9_Witness ==
  /\ costPc = "done"
  /\ Asked("campusBoundaryPenalty") > 0 /\ Asked("outdoorPenalty") > 0
  /\ "outside_campus" \in DOMAIN fromNode /\ fromNode.outside_campus
  /\ "outside_campus" \notin DOMAIN toNode
  /\ ClaimIndoor(toNode)
  /\ cost = neighbor.distance + Asked("campusBoundaryPenalty") + Asked("outdoorPenalty")

\* C10: for an edge of positive distance edgeCost is positive and at least the
\* distance, whatever the nodes and the preferences, negative penalties included.
C10_PositiveCost ==
  (costPc = "done" /\ neighbor.distance > 0) =>
     /\ cost > 0
     /\ cost >= neighbor.distance

\* a crossing of both boundaries under two negative penalties, at the raw distance
C10_Witness ==
  /\ costPc = "done" /\ neighbor.distance > 1
  /\ Asked("outdoorPenalty") < 0 /\ Asked("campusBoundaryPenalty") < 0
  /\ crossesIndoorOutdoor(fromNode, toNode)
  /\ crossesCampusBoundary(fromNode, toNode)
  /\ cost = neighbor.distance

\* edgeCost for the same edge walked from toNode to fromNode
costReversed ==
  edgeCost(nodeMapOf([nodes |-> <<fromNode, toNode>>, edges |-> <<>>]), costPrefs,
           toNode.id, fromNode.id, [neighbor EXCEPT !.id = fromNode.id])

\* C12: for every edge, every flag setting of its two nodes and every preference
\* setting, the cost of the edge from a to b equals its cost from b to a.
C12_CostSymmetric == costPc = "done" => cost = costReversed

\* an edge walked from an outdoor node into an indoor one, with the outdoor
\* penalty added
C12_Witness ==
  /\ costPc = "done"
  /\ Asked("outdoorPenalty") > 0
  /\ "indoor" \in DOMAIN fromNode /\ fromNode.indoor = FALSE
  /\ "indoor" \in DOMAIN toNode /\ toNode.indoor = TRUE
  /\ "outside_campus" \notin DOMAIN fromNode /\ "outside_campus" \notin DOMAIN toNode
  /\ cost = neighbor.distance + Asked("outdoorPenalty")

(***************************************************************************)
(* NavigationScreen (navigation.tsx): preferences, the stairs filter and   *)
(* the two-phase route effect.                                             *)
(***************************************************************************)
\* minimizeOutdoorPaths ? 50 : 0 (navigation.tsx 105)
OutdoorPenaltyOn == 50
\* navigation.tsx 107
CampusBoundaryPenalty == 5000

\* routePreferences (navigation.tsx 102-115)
routePreferencesOf(wheelchair, avoid, minimize) ==
  [disallowStairs |-> wheelchair \/ avoid,
   outdoorPenalty |-> IF minimize THEN OutdoorPenaltyOn ELSE 0,
   campusBoundaryPenalty |-> CampusBoundaryPenalty]

idsOf(nodes) == {nodes[i].id : i \in DOMAIN nodes}

\* displayGraphData with the edges filtered and every node kept
displayGraphDataKeepNodes(gd, disallowStairs, selected, start, end) ==
  IF ~disallowStairs THEN gd
  ELSE
    LET allowedNodeIds == {gd.nodes[i].id : i \in DOMAIN gd.nodes}
        keepEdge(e) == /\ e.no_stairs # FALSE
                       /\ e.sourceId \in allowedNodeIds
                       /\ e.targetId \in allowedNodeIds
    IN [nodes |-> gd.nodes, edges |-> SelectSeq(gd.edges, keepEdge)]

\* displayGraphData without the pins of navigation.tsx 139-141
displayGraphDataNoPins(gd, disallowStairs, selected, start, end) ==
  IF ~disallowStairs THEN gd
  ELSE
    LET allowedNodeIds == {gd.nodes[i].id : i \in DOMAIN gd.nodes}
        keepEdge(e) == /\ e.no_stairs # FALSE
                       /\ e.sourceId \in allowedNodeIds
                       /\ e.targetId \in allowedNodeIds
        edges == SelectSeq(gd.edges, keepEdge)
        keepNode(n) == \E i \in DOMAIN edges : n.id \in {edges[i].sourceId, edges[i].targetId}
    IN [nodes |-> SelectSeq(gd.nodes, keepNode), edges |-> edges]

\* displayGraphData (navigation.tsx 117-146); selected, start, end: an id or null
displayGraphDataOf(gd, disallowStairs, selected, start, end) ==
  IF ~disallowStairs THEN gd
  ELSE
    LET allowedNodeIds == idsOf(gd.nodes)
        keepEdge(e) == /\ e.no_stairs # FALSE
                       /\ e.sourceId \in allowedNodeIds
                       /\ e.targetId \in allowedNodeIds
        edges == SelectSeq(gd.edges, keepEdge)
        pinned == {id \in {selected, start, end} : id # Null /\ id \in allowedNodeIds}
        connectedNodeIds == {edges[i].sourceId : i \in DOMAIN edges}
                              \cup {edges[i].targetId : i \in DOMAIN edges}
                              \cup pinned
        keepNode(n) == n.id \in connectedNodeIds
    IN [nodes |-> SelectSeq(gd.nodes, keepNode), edges |-> edges]

\* isIndoorSafe with the outside_campus test dropped
isIndoorSafeIndoorOnly(node) == FieldIsTrue(node, "indoor")

\* isIndoorSafe (navigation.tsx 165-166)
isIndoorSafe(node) ==
  FieldIsTrue(node, "indoor") /\ ~FieldIsTrue(node, "outside_campus")

\* chosenPath || []
pathOrEmpty(res) == IF res.kind = "path" THEN res.path ELSE <<>>

\* the route effect with the full-graph call made whatever phase 1 found
routeEffectAlwaysFull(display, prefs, minimize, startN, endN) ==
  LET indoorNodes == SelectSeq(display.nodes, isIndoorSafe)
      indoorIds == idsOf(indoorNodes)
      attempt == /\ minimize /\ isIndoorSafe(startN) /\ isIndoorSafe(endN)
                 /\ startN.id \in indoorIds /\ endN.id \in indoorIds
      bothIndoor(e) == e.sourceId \in indoorIds /\ e.targetId \in indoorIds
      indoorGraph == [nodes |-> indoorNodes, edges |-> SelectSeq(display.edges, bothIndoor)]
      indoorPrefs == WithField(prefs, "outdoorPenalty", 0)
      call1 == [phase |-> 1, graph |-> indoorGraph, preferences |-> indoorPrefs,
                result |-> findShortestPath(indoorGraph, startN.id, endN.id, indoorPrefs)]
      call2 == [phase |-> 2, graph |-> display, preferences |-> prefs,
                result |-> findShortestPath(display, startN.id, endN.id, prefs)]
  IN [routePath |-> pathOrEmpty(call2.result),
      calls |-> (IF attempt THEN <<call1>> ELSE <<>>) \o <<call2>>]

\* the route effect with the full-graph call made only when phase 1 was not tried
routeEffectNoFallback(display, prefs, minimize, startN, endN) ==
  LET indoorNodes == SelectSeq(display.nodes, isIndoorSafe)
      indoorIds == idsOf(indoorNodes)
      attempt == /\ minimize /\ isIndoorSafe(startN) /\ isIndoorSafe(endN)
                 /\ startN.id \in indoorIds /\ endN.id \in indoorIds
      bothIndoor(e) == e.sourceId \in indoorIds /\ e.targetId \in indoorIds
      indoorGraph == [nodes |-> indoorNodes, edges |-> SelectSeq(display.edges, bothIndoor)]
      indoorPrefs == WithField(prefs, "outdoorPenalty", 0)
      call1 == [phase |-> 1, graph |-> indoorGraph, preferences |-> indoorPrefs,
                result |-> findShortestPath(indoorGraph, startN.id, endN.id, indoorPrefs)]
      call2 == [phase |-> 2, graph |-> display, preferences |-> prefs,
                result |-> findShortestPath(display, startN.id, endN.id, prefs)]
  IN IF attempt
     THEN [routePath |-> pathOrEmpty(call1.result), calls |-> <<call1>>]
     ELSE [routePath |-> pathOrEmpty(call2.result), calls |-> <<call2>>]

\* the body of the route effect for a start and an end node (navigation.tsx 165-195):
\* the new routePath and the solver calls made, in order
routeEffect(display, prefs, minimize, startN, endN) ==
  LET indoorNodes == SelectSeq(display.nodes, isIndoorSafe)
      indoorIds == idsOf(indoorNodes)
      attempt == /\ minimize /\ isIndoorSafe(startN) /\ isIndoorSafe(endN)
                 /\ startN.id \in indoorIds /\ endN.id \in indoorIds
      bothIndoor(e) == e.sourceId \in indoorIds /\ e.targetId \in indoorIds
      indoorGraph == [nodes |-> indoorNodes, edges |-> SelectSeq(display.edges, bothIndoor)]
      indoorPrefs == WithField(prefs, "outdoorPenalty", 0)
      call1 == [phase |-> 1, graph |-> indoorGraph, preferences |-> indoorPrefs,
                result |-> findShortestPath(indoorGraph, startN.id, endN.id, indoorPrefs)]
      found1 == attempt /\ call1.result.kind = "path" /\ Len(call1.result.path) > 0
      call2 == [phase |-> 2, graph |-> display, preferences |-> prefs,
                result |-> findShortestPath(display, startN.id, endN.id, prefs)]
  IN IF found1
     THEN [routePath |-> call1.result.path, calls |-> <<call1>>]
     ELSE [routePath |-> pathOrEmpty(call2.result),
           calls |-> (IF attempt THEN <<call1>> ELSE <<>>) \o <<call2>>]

(***************************************************************************)
(* SpecNav: the screen's state, its handlers and its effects.  A handler   *)
(* is followed by one render; the effects whose dependencies changed run   *)
(* after it, before the next event is handled.                             *)
(***************************************************************************)
\* the nodes of the campus graph: A and B indoor, C outdoor, D indoor off campus
NavNodes ==
  <<[id |-> "A", indoor |-> TRUE],
    [id |-> "B", indoor |-> TRUE, outside_campus |-> FALSE],
    [id |-> "C", indoor |-> FALSE],
    [id |-> "D", indoor |-> TRUE, outside_campus |-> TRUE]>>

NavEdge(a, b, d, ns) == [sourceId |-> a, targetId |-> b, distance |-> d, no_stairs |-> ns]

\* the campus graphs: a long indoor corridor A-B, a stairs shortcut A-B and an
\* outdoor detour A-C-B, each present or not, with a link B-D to the off-campus
\* building and an edge to a node the data lacks
NavGraphs ==
  {[nodes |-> NavNodes,
    edges |-> (IF c[1] THEN <<NavEdge("A", "B", 200, TRUE)>> ELSE <<>>)
              \o (IF c[2] THEN <<NavEdge("B", "A", 10, FALSE)>> ELSE <<>>)
              \o (IF c[3] THEN <<NavEdge("A", "C", 1, TRUE), NavEdge("C", "B", 1, TRUE)>>
                  ELSE <<>>)
              \o <<NavEdge("B", "D", 1, TRUE), NavEdge("D", AbsentId, 1, TRUE)>>] :
     c \in [1..3 -> BOOLEAN]}

nodeOfId(gd, id) == nodeMapOf(gd)[id]

\* the state a render reads
Cur ==
  [avoidStairs |-> avoidStairs, minimizeOutdoorPaths |-> minimizeOutdoorPaths,
   wheelchairUser |-> wheelchairUser, mode |-> mode, activeInput |-> activeInput,
   selectedNode |-> selectedNode, startNode |-> startNode, endNode |-> endNode,
   routePath |-> routePath, currentStepIndex |-> currentStepIndex]

routePreferencesIn(c) ==
  routePreferencesOf(c.wheelchairUser, c.avoidStairs, c.minimizeOutdoorPaths)

displayGraphDataIn(c) ==
  displayGraphDataOf(graphData, routePreferencesIn(c).disallowStairs,
                     c.selectedNode, c.startNode, c.endNode)

\* useMemo gives a new routePreferences object (navigation.tsx 115)
routePreferencesRenewed(old, new) ==
  <<old.avoidStairs, old.minimizeOutdoorPaths, old.wheelchairUser>>
    # <<new.avoidStairs, new.minimizeOutdoorPaths, new.wheelchairUser>>

\* useMemo gives another displayGraphData object (navigation.tsx 118, 146): the
\* memo is computed again and one of the two values is not graphData itself
displayGraphDataRenewed(old, new) ==
  /\ <<old.endNode, routePreferencesIn(old).disallowStairs, old.selectedNode, old.startNode>>
       # <<new.endNode, routePreferencesIn(new).disallowStairs, new.selectedNode, new.startNode>>
  /\ routePreferencesIn(old).disallowStairs \/ routePreferencesIn(new).disallowStairs

\* the route effect depending on startNode and endNode alone
routeDepsChangedEndpointsOnly(old, new) ==
  \/ old.endNode # new.endNode
  \/ old.startNode # new.startNode

\* the dependencies of the route effect differ between two renders (navigation.tsx 197)
routeDepsChanged(old, new) ==
  \/ displayGraphDataRenewed(old, new)
  \/ old.endNode # new.endNode
  \/ old.minimizeOutdoorPaths # new.minimizeOutdoorPaths
  \/ routePreferencesRenewed(old, new)
  \/ old.startNode # new.startNode

\* the dependencies of the bounds effect differ (navigation.tsx 204)
boundsDepsChanged(old, new) ==
  <<old.currentStepIndex, Len(old.routePath)>>
    # <<new.currentStepIndex, Len(new.routePath)>>

\* the render with the stairs filter applied to graphData in place
RenderFilteringInPlace(new, run) ==
  /\ avoidStairs' = new.avoidStairs
  /\ minimizeOutdoorPaths' = new.minimizeOutdoorPaths
  /\ wheelchairUser' = new.wheelchairUser
  /\ mode' = new.mode
  /\ activeInput' = new.activeInput
  /\ selectedNode' = new.selectedNode
  /\ startNode' = new.startNode
  /\ endNode' = new.endNode
  /\ routePath' = new.routePath
  /\ currentStepIndex' = new.currentStepIndex
  /\ routeEffectDue' = routeDepsChanged(Cur, new)
  /\ boundsEffectDue' = boundsDepsChanged(Cur, new)
  /\ routeRun' = run
  /\ graphData' = displayGraphDataIn(new)
  /\ UNCHANGED <<solverVars, costVars>>

\* the render after a state change: the new state and the effects that are due
Render(new, run) ==
  /\ avoidStairs' = new.avoidStairs
  /\ minimizeOutdoorPaths' = new.minimizeOutdoorPaths
  /\ wheelchairUser' = new.wheelchairUser
  /\ mode' = new.mode
  /\ activeInput' = new.activeInput
  /\ selectedNode' = new.selectedNode
  /\ startNode' = new.startNode
  /\ endNode' = new.endNode
  /\ routePath' = new.routePath
  /\ currentStepIndex' = new.currentStepIndex
  /\ routeEffectDue' = routeDepsChanged(Cur, new)
  /\ boundsEffectDue' = boundsDepsChanged(Cur, new)
  /\ routeRun' = run
  /\ UNCHANGED <<graphData, solverVars, costVars>>

\* no effect is waiting: the screen takes the next event
Idle == mode # "unused" /\ ~routeEffectDue /\ ~boundsEffectDue

\* the nodes the screen offers (suggestions and the overlay's popups)
OfferedNodeIds == idsOf(displayGraphDataIn(Cur).nodes)

InitNav ==
  /\ graphData \in NavGraphs
  /\ avoidStairs \in BOOLEAN
  /\ minimizeOutdoorPaths \in BOOLEAN
  /\ wheelchairUser \in BOOLEAN
  /\ mode = "explore"
  /\ activeInput = Null
  /\ selectedNode = Null /\ startNode = Null /\ endNode = Null
  /\ routePath = <<>>
  /\ currentStepIndex = 0
  /\ routeEffectDue = TRUE
  /\ boundsEffectDue = TRUE
  /\ routeRun = NoRun
  /\ SolverUnused
  /\ CostUnused

\* onFocus of the three text inputs (navigation.tsx 336, 357, 368)
FocusInput(which) ==
  /\ Idle
  /\ IF which = "search" THEN mode = "explore" ELSE mode = "navigate"
  /\ Render([Cur EXCEPT !.activeInput = which], NoRun)

\* handleSelectSuggestion (navigation.tsx 223-238)
HandleSelectSuggestion(id) ==
  /\ Idle
  /\ activeInput # Null
  /\ id \in OfferedNodeIds
  /\ Render(CASE activeInput = "search" ->
                    [Cur EXCEPT !.selectedNode = id, !.activeInput = Null]
               [] activeInput = "start" ->
                    [Cur EXCEPT !.startNode = id, !.activeInput = Null]
               [] activeInput = "end" ->
                    [Cur EXCEPT !.endNode = id, !.activeInput = Null],
            NoRun)

\* handleSetStart (navigation.tsx 241-249)
HandleSetStart(id) ==
  /\ Idle
  /\ id \in OfferedNodeIds
  /\ Render([Cur EXCEPT !.mode = "navigate", !.startNode = id,
                        !.activeInput = IF endNode = Null THEN "end" ELSE @], NoRun)

\* handleSetEnd (navigation.tsx 251-259)
HandleSetEnd(id) ==
  /\ Idle
  /\ id \in OfferedNodeIds
  /\ Render([Cur EXCEPT !.mode = "navigate", !.endNode = id,
                        !.activeInput = IF startNode = Null THEN "start" ELSE @], NoRun)

\* startNavigation (navigation.tsx 260-268), offered in explore mode for a selected node
StartNavigation ==
  /\ Idle
  /\ mode = "explore" /\ selectedNode # Null
  /\ Render([Cur EXCEPT !.mode = "navigate", !.endNode = selectedNode,
                        !.activeInput = "start"], NoRun)

\* exitNavigation (navigation.tsx 270-280)
ExitNavigation ==
  /\ Idle
  /\ mode = "navigate"
  /\ Render([Cur EXCEPT !.mode = "explore", !.startNode = Null, !.endNode = Null,
                        !.routePath = <<>>, !.activeInput = Null], NoRun)

\* setWheelchairUser(!wheelchairUser) (navigation.tsx 508)
ToggleWheelchairUser ==
  /\ Idle
  /\ Render([Cur EXCEPT !.wheelchairUser = ~wheelchairUser], NoRun)

\* avoidStairs changed in the settings (navigation.tsx 19)
ToggleAvoidStairs ==
  /\ Idle
  /\ Render([Cur EXCEPT !.avoidStairs = ~avoidStairs], NoRun)

\* minimizeOutdoorPaths changed in the settings (navigation.tsx 20)
ToggleMinimizeOutdoorPaths ==
  /\ Idle
  /\ Render([Cur EXCEPT !.minimizeOutdoorPaths = ~minimizeOutdoorPaths], NoRun)

\* the previous-step button (navigation.tsx 570-572)
PreviousStep ==
  /\ Idle
  /\ Len(routePath) > 1 /\ currentStepIndex > 0
  /\ Render([Cur EXCEPT !.currentStepIndex = Max(currentStepIndex - 1, 0)], NoRun)

\* the next-step button (navigation.tsx 586-588)
NextStep ==
  /\ Idle
  /\ Len(routePath) > 1 /\ currentStepIndex < Len(routePath) - 1
  /\ Render([Cur EXCEPT !.currentStepIndex =
                          IF currentStepIndex + 1 <= Len(routePath) - 1
                          THEN currentStepIndex + 1 ELSE Len(routePath) - 1], NoRun)

\* what the route effect sets (navigation.tsx 158-197), reading the render's state
routeEffectOf(c) ==
  IF c.startNode = Null \/ c.endNode = Null
  THEN [routePath |-> <<>>, calls |-> <<>>]
  ELSE routeEffect(displayGraphDataIn(c), routePreferencesIn(c), c.minimizeOutdoorPaths,
                   nodeOfId(graphData, c.startNode), nodeOfId(graphData, c.endNode))

\* what the bounds effect sets currentStepIndex to (navigation.tsx 200-204), reading
\* the render's state; the index given when it sets nothing
boundsEffectOf(c, otherwise) ==
  IF c.currentStepIndex >= Len(c.routePath)
  THEN (IF Len(c.routePath) > 0 THEN Len(c.routePath) - 1 ELSE 0)
  ELSE otherwise

\* the route effect without setCurrentStepIndex(0)
RouteEffectKeepingIndex ==
  /\ mode # "unused"
  /\ routeEffectDue
  /\ \E r \in {routeEffectOf(Cur)} :
       Render([Cur EXCEPT !.routePath = r.routePath,
                          !.currentStepIndex =
                             IF boundsEffectDue THEN boundsEffectOf(Cur, currentStepIndex)
                             ELSE currentStepIndex],
              [ran |-> TRUE, calls |-> r.calls])

\* the effects after a render in which the route effect is due: the route effect,
\* then the bounds effect if it is due too, both on the state of that render
RouteEffect ==
  /\ mode # "unused"
  /\ routeEffectDue
  /\ \E r \in {routeEffectOf(Cur)} :
       Render([Cur EXCEPT !.routePath = r.routePath,
                          !.currentStepIndex =
                             IF boundsEffectDue THEN boundsEffectOf(Cur, 0) ELSE 0],
              [ran |-> TRUE, calls |-> r.calls])

\* the effects after a render in which only the bounds effect is due
BoundsEffect ==
  /\ mode # "unused"
  /\ ~routeEffectDue /\ boundsEffectDue
  /\ Render([Cur EXCEPT !.currentStepIndex = boundsEffectOf(Cur, currentStepIndex)],
            routeRun)

NextNav ==
  \/ \E which \in {"search", "start", "end"} : FocusInput(which)
  \/ \E id \in idsOf(NavNodes) : HandleSelectSuggestion(id)
  \/ \E id \in idsOf(NavNodes) : HandleSetStart(id)
  \/ \E id \in idsOf(NavNodes) : HandleSetEnd(id)
  \/ StartNavigation
  \/ ExitNavigation
  \/ ToggleWheelchairUser
  \/ ToggleAvoidStairs
  \/ ToggleMinimizeOutdoorPaths
  \/ PreviousStep
  \/ NextStep
  \/ RouteEffect
  \/ BoundsEffect

SpecNav == InitNav /\ [][NextNav]_vars

(***************************************************************************)
(* The route effect's contract, read off the solver calls it made.         *)
(***************************************************************************)
\* the route effect has run on a start and an end node and no event came after
RouteComputed == routeRun.ran /\ startNode # Null /\ endNode # Null

CallsOfPhase(k) == {i \in DOMAIN routeRun.calls : routeRun.calls[i].phase = k}

\* indoor === true and outside_campus !== true, on the nodes of graphData
IndoorSafeIds ==
  {graphData.nodes[i].id : i \in
     {j \in DOMAIN graphData.nodes :
        LET n == graphData.nodes[j]
        IN /\ "indoor" \in DOMAIN n /\ n.indoor = TRUE
           /\ ~("outside_campus" \in DOMAIN n /\ n.outside_campus = TRUE)}}

\* the route state a solver result gives
RouteOfResult(res) == IF res.kind = "null" THEN <<>> ELSE res.path

\* the cost of the cheapest edge of gd joining a and b under prefs (Infinity: none)
NavEdgeCost(gd, prefs, a, b) ==
  MinOver({edgeCost(nodeMapOf(gd), prefs, a, b, gd.edges[k]) :
             k \in {j \in DOMAIN gd.edges :
                      /\ {gd.edges[j].sourceId, gd.edges[j].targetId} = {a, b}
                      /\ ~(disallowStairsOf(prefs) /\ gd.edges[j].no_stairs = FALSE)}})

RECURSIVE NavRouteCostFrom(_, _, _, _)
NavRouteCostFrom(gd, prefs, p, i) ==
  IF i >= Len(p) THEN 0
  ELSE AddNum(NavEdgeCost(gd, prefs, p[i], p[i + 1]), NavRouteCostFrom(gd, prefs, p, i + 1))

\* the cost of route p in gd under prefs
NavRouteCost(gd, prefs, p) == NavRouteCostFrom(gd, prefs, p, 1)

\* C5: whenever the phase-1 solver call on the indoor-only subgraph returns a
\* non-empty path, that path is the chosen route, no phase-2 call on the full
\* display graph is made, and every node of the route is indoor-safe.
C5_IndoorFirst ==
  \A i \in CallsOfPhase(1) :
     LET indoorPath == routeRun.calls[i].result
     IN (indoorPath.kind = "path" /\ Len(indoorPath.path) > 0) =>
          /\ routePath = indoorPath.path
          /\ CallsOfPhase(2) = {}
          /\ \A k \in DOMAIN routePath : routePath[k] \in IndoorSafeIds

\* phase 1 gave the route A-B although the display graph holds the detour A-C-B,
\* which costs less under the full preferences
C5_Witness ==
  /\ RouteComputed
  /\ CallsOfPhase(1) # {} /\ CallsOfPhase(2) = {}
  /\ routePath = <<"A", "B">>
  /\ NumLess(NavRouteCost(displayGraphDataIn(Cur), routePreferencesIn(Cur), <<"A", "C", "B">>),
             NavRouteCost(displayGraphDataIn(Cur), routePreferencesIn(Cur), routePath))

\* C6: the indoor-only solver call is made exactly when minimizeOutdoorPaths is on
\* and both the start and the end node are indoor-safe; in every other case the
\* route is the result of one full-graph call with the complete preferences.
C6_PhaseOneEligibility ==
  RouteComputed =>
    LET eligible == /\ minimizeOutdoorPaths
                    /\ startNode \in IndoorSafeIds /\ endNode \in IndoorSafeIds
    IN /\ (CallsOfPhase(1) # {}) <=> eligible
       /\ ~eligible =>
            /\ Len(routeRun.calls) = 1
            /\ routeRun.calls[1].phase = 2
            /\ routeRun.calls[1].graph = displayGraphDataIn(Cur)
            /\ routeRun.calls[1].preferences = routePreferencesIn(Cur)
            /\ routePath = RouteOfResult(routeRun.calls[1].result)

\* minimizeOutdoorPaths is on, the start is indoor-safe and the end is the indoor
\* node off campus: one full-graph call gave the route
C6_Witness ==
  /\ RouteComputed
  /\ minimizeOutdoorPaths
  /\ startNode \in IndoorSafeIds /\ endNode = "D"
  /\ CallsOfPhase(1) = {}
  /\ Len(routePath) > 1

\* C7: when phase 1 is not tried or returns no path, the route is the result of
\* findShortestPath on the stairs-filtered display graph with the full preferences;
\* when that call returns null too the route is the empty list; no call throws
\* and none is made twice.
C7_FallbackAndNoRoute ==
  RouteComputed =>
    /\ \A i \in DOMAIN routeRun.calls : routeRun.calls[i].result.kind \in {"path", "null"}
    /\ Cardinality(CallsOfPhase(1)) <= 1 /\ Cardinality(CallsOfPhase(2)) <= 1
    /\ (\A i \in CallsOfPhase(1) : routeRun.calls[i].result.kind # "path") =>
          \E i \in CallsOfPhase(2) :
             LET fallback == routeRun.calls[i]
             IN /\ fallback.graph = displayGraphDataIn(Cur)
                /\ disallowStairsOf(fallback.preferences) =>
                     \A k \in DOMAIN fallback.graph.edges :
                        fallback.graph.edges[k].no_stairs # FALSE
                /\ fallback.preferences =
                     [disallowStairs |-> wheelchairUser \/ avoidStairs,
                      outdoorPenalty |-> IF minimizeOutdoorPaths THEN OutdoorPenaltyOn ELSE 0,
                      campusBoundaryPenalty |-> CampusBoundaryPenalty]
                /\ fallback.result =
                     findShortestPath(fallback.graph, startNode, endNode, fallback.preferences)
                /\ routePath = RouteOfResult(fallback.result)

\* stairs are disallowed and the only A-B link is a staircase: phase 1 and phase 2
\* both returned null and the route is empty
C7_Witness ==
  /\ RouteComputed
  /\ startNode = "A" /\ endNode = "B"
  /\ \E i \in CallsOfPhase(1) : routeRun.calls[i].result.kind = "null"
  /\ \E i \in CallsOfPhase(2) : routeRun.calls[i].result.kind = "null"
  /\ \E k \in DOMAIN graphData.edges : graphData.edges[k].no_stairs = FALSE
  /\ routePath = <<>>

(***************************************************************************)
(* The stairs filter's output, read off the graph a render derives.        *)
(***************************************************************************)
StairsDisallowed == wheelchairUser \/ avoidStairs

\* the ids of the nodes of the original graph
OriginalIds == {graphData.nodes[i].id : i \in DOMAIN graphData.nodes}

\* the selected, start and end node, where set
PinnedIds == {selectedNode, startNode, endNode} \ {Null}

\* gd holds only admissible edges, and only nodes that end a retained edge or are
\* pinned
FilterContract(gd) ==
  /\ \A k \in DOMAIN gd.edges :
       /\ ~(StairsDisallowed /\ gd.edges[k].no_stairs = FALSE)
       /\ gd.edges[k].sourceId \in OriginalIds
       /\ gd.edges[k].targetId \in OriginalIds
  /\ \A i \in DOMAIN gd.nodes :
       \/ gd.nodes[i].id \in PinnedIds
       \/ \E k \in DOMAIN gd.edges :
            gd.nodes[i].id \in {gd.edges[k].sourceId, gd.edges[k].targetId}

\* the original statement of C17: under every preference setting and selection
\* the derived graph holds only admissible edges (none with no_stairs false when
\* stairs are disallowed, none with a missing endpoint) and only nodes that end a
\* retained edge or are pinned.
C17_FilterContractAlways ==
  mode # "unused" => FilterContract(displayGraphDataIn(Cur))

\* C17 (amended): when stairs are disallowed the derived graph holds only edges
\* without stairs whose endpoints are nodes, and only nodes that end a retained
\* edge or are pinned; when stairs are allowed the derived graph is the original
\* graph itself, unfiltered.
C17_FilterContractWhenFiltering ==
  mode # "unused" =>
     /\ StairsDisallowed => FilterContract(displayGraphDataIn(Cur))
     /\ ~StairsDisallowed => displayGraphDataIn(Cur) = graphData

\* stairs are disallowed and node A is selected: the staircase A-B and the edge to
\* the missing node are gone, A stays without any edge and the edgeless node C is
\* hidden
C17_Witness ==
  /\ StairsDisallowed
  /\ selectedNode = "A"
  /\ \E k \in DOMAIN graphData.edges : graphData.edges[k].no_stairs = FALSE
  /\ LET gd == displayGraphDataIn(Cur)
     IN /\ Len(gd.edges) = 1
        /\ {gd.nodes[i].id : i \in DOMAIN gd.nodes} = {"A", "B", "D"}

\* the ids of the nodes of graph gd
NodeIdsIn(gd) == {gd.nodes[i].id : i \in DOMAIN gd.nodes}

\* C18: after any sequence of selections and of toggles of the stairs preferences
\* the selected, the start and the end node, where set, are nodes of the derived
\* display graph, and every full-graph solver call is made on a graph that holds
\* both endpoints.
C18_PinnedNodesSurvive ==
  mode # "unused" =>
     /\ PinnedIds \subseteq OriginalIds
     /\ PinnedIds \subseteq NodeIdsIn(displayGraphDataIn(Cur))
     /\ RouteComputed =>
          \A i \in CallsOfPhase(2) :
             {startNode, endNode} \subseteq NodeIdsIn(routeRun.calls[i].graph)

\* stairs are disallowed and the route from A to C was computed on a display graph
\* in which neither node has an edge left
C18_Witness ==
  /\ RouteComputed
  /\ StairsDisallowed
  /\ startNode = "A" /\ endNode = "C"
  /\ \E i \in CallsOfPhase(2) :
       LET gd == routeRun.calls[i].graph
       IN /\ {"A", "C"} \subseteq NodeIdsIn(gd)
          /\ \A k \in DOMAIN gd.edges :
               {gd.edges[k].sourceId, gd.edges[k].targetId} \cap {"A", "C"} = {}

MaxCalls == 3

\* the graphs handed to the calls: one with a staircase beside a longer corridor
\* and an edge to a missing node, one that leaves node B without an edge
CallGraphs ==
  {[nodes |-> SolverNodes,
    edges |-> <<[sourceId |-> "A", targetId |-> "B", distance |-> 1, no_stairs |-> FALSE],
                [sourceId |-> "B", targetId |-> "A", distance |-> MaxDist, no_stairs |-> TRUE],
                [sourceId |-> "B", targetId |-> "C", distance |-> 1, no_stairs |-> TRUE],
                [sourceId |-> "A", targetId |-> AbsentId, distance |-> 1, no_stairs |-> TRUE]>>],
   [nodes |-> SolverNodes,
    edges |-> <<[sourceId |-> "C", targetId |-> "A", distance |-> 1, no_stairs |-> TRUE]>>]}

CallPreferences ==
  [disallowStairs : BOOLEAN, outdoorPenalty : {MaxPenalty}, campusBoundaryPenalty : {0}]

\* the (startId, endId) pairs of the calls
CallEndpoints == {<<"A", "B">>, <<"B", "C">>, <<"C", "A">>}

InitCalls ==
  /\ data \in CallGraphs
  /\ \E se \in CallEndpoints : startId = se[1] /\ endId = se[2]
  /\ preferences \in CallPreferences
  /\ \E call \in {Call} : \E st \in {initLocals(call)} : AssignLocals(st)
  /\ returned = <<>>
  /\ CostUnused
  /\ NavUnused

\* the return (routing.ts 151): the caller has the result
Return ==
  /\ pc = "done"
  /\ returned' = Append(returned, [data |-> data, startId |-> startId, endId |-> endId,
                                   preferences |-> preferences, result |-> result])
  /\ pc' = "returned"
  /\ UNCHANGED <<data, startId, endId, preferences, distances, previous, pq, path, u,
                 result>>
  /\ UNCHANGED <<costVars, navVars>>

\* the next call, entered with distances and previous as the last call left them
CallAgainOnOldLocals ==
  /\ pc = "returned"
  /\ Len(returned) < MaxCalls
  /\ \E d \in CallGraphs, se \in CallEndpoints, p \in CallPreferences :
       \E st \in {initLocals(callOf(d, se[1], se[2], p))} :
          /\ data' = d /\ startId' = se[1] /\ endId' = se[2] /\ preferences' = p
          /\ distances' = [distances EXCEPT ![se[1]] = 0]
          /\ previous' = previous
          /\ pq' = st.pq /\ pc' = st.pc /\ path' = st.path /\ u' = st.u
          /\ result' = st.result
  /\ UNCHANGED <<returned, costVars, navVars>>

\* the next call (routing.ts 29-113): new arguments, and locals made anew
CallAgain ==
  /\ pc = "returned"
  /\ Len(returned) < MaxCalls
  /\ \E d \in CallGraphs, se \in CallEndpoints, p \in CallPreferences :
       \E st \in {initLocals(callOf(d, se[1], se[2], p))} :
          /\ data' = d /\ startId' = se[1] /\ endId' = se[2] /\ preferences' = p
          /\ distances' = st.distances
          /\ previous' = st.previous
          /\ pq' = st.pq /\ pc' = st.pc /\ path' = st.path /\ u' = st.u
          /\ result' = st.result
  /\ UNCHANGED <<returned, costVars, navVars>>

NextCalls == SearchStep \/ ReconstructStep \/ WalkStep \/ Return \/ CallAgain

SpecCalls == InitCalls /\ [][NextCalls]_vars

\* two returned calls had the same graph, preferences, start and end
SameArguments(c1, c2) ==
  /\ c1.data = c2.data /\ c1.preferences = c2.preferences
  /\ c1.startId = c2.startId /\ c1.endId = c2.endId

\* the total cost of the path a call returned
CostReturned(c) == NavRouteCost(c.data, c.preferences, c.result.path)

StairsGraph ==
  [nodes |-> <<[id |-> "A", indoor |-> TRUE],
               [id |-> "B", indoor |-> FALSE],
               [id |-> "C", indoor |-> TRUE]>>,
   edges |-> <<[sourceId |-> "A", targetId |-> "B", distance |-> 10, no_stairs |-> TRUE],
               [sourceId |-> "B", targetId |-> "C", distance |-> 10, no_stairs |-> TRUE],
               [sourceId |-> "A", targetId |-> "C", distance |-> 30, no_stairs |-> FALSE]>>]

\* a campus with start S and end E joined directly over `direct` metres on
\* campus, and by a detour of two metres through the off-campus node Off
CampusGraph(direct) ==
  [nodes |-> <<[id |-> "S", indoor |-> FALSE],
               [id |-> "E", indoor |-> FALSE, outside_campus |-> FALSE],
               [id |-> "Off", outside_campus |-> TRUE]>>,
   edges |-> <<[sourceId |-> "S", targetId |-> "E", distance |-> direct, no_stairs |-> TRUE],
               [sourceId |-> "S", targetId |-> "Off", distance |-> 1, no_stairs |-> TRUE],
               [sourceId |-> "Off", targetId |-> "E", distance |-> 1, no_stairs |-> TRUE]>>]

\* a campus whose only way from S to E on campus passes through the building
\* M, two metres in all, beside the detour of two metres through Off
BuildingGraph ==
  [nodes |-> <<[id |-> "S", indoor |-> FALSE],
               [id |-> "M", indoor |-> TRUE],
               [id |-> "E", indoor |-> FALSE],
               [id |-> "Off", outside_campus |-> TRUE]>>,
   edges |-> <<[sourceId |-> "S", targetId |-> "M", distance |-> 1, no_stairs |-> TRUE],
               [sourceId |-> "M", targetId |-> "E", distance |-> 1, no_stairs |-> TRUE],
               [sourceId |-> "S", targetId |-> "Off", distance |-> 1, no_stairs |-> TRUE],
               [sourceId |-> "Off", targetId |-> "E", distance |-> 1, no_stairs |-> TRUE]>>]

\* the campus graphs: the direct way 4999 metres longer than the detour, 9999
\* metres longer, and longer still; and the way through the building
CampusGraphs == {CampusGraph(5001), CampusGraph(10001), CampusGraph(10003), BuildingGraph}

ScenarioGraphs == {StairsGraph} \cup CampusGraphs

\* the (data, startId, endId) of the scenario calls
ScenarioCalls ==
  {[data |-> StairsGraph, startId |-> a, endId |-> b] : a, b \in {"A", "B", "C"}}
  \cup {[data |-> g, startId |-> se[1], endId |-> se[2]] :
          g \in CampusGraphs, se \in {<<"S", "E">>, <<"E", "S">>}}

\* the preferences of a scenario call: the screen's penalties, or zero, or an
\* outdoor penalty above the campus boundary penalty
ScenarioPreferences ==
  [disallowStairs : BOOLEAN, outdoorPenalty : {0, OutdoorPenaltyOn, 6000},
   campusBoundaryPenalty : {0, CampusBoundaryPenalty}]

InitScenario ==
  /\ \E c \in ScenarioCalls :
        data = c.data /\ startId = c.startId /\ endId = c.endId
  /\ preferences \in ScenarioPreferences
  /\ \E call \in {Call} : \E st \in {initLocals(call)} : AssignLocals(st)
  /\ returned = <<>>
  /\ CostUnused
  /\ NavUnused

NextScenario == SearchStep \/ ReconstructStep \/ WalkStep

SpecScenario == InitScenario /\ [][NextScenario]_vars

\* the call has returned
ScenarioEnded == pc = "done"

\* the call of the stairs example: A to C, stairs disallowed, no penalties
StairsExample ==
  /\ data = StairsGraph /\ startId = "A" /\ endId = "C"
  /\ preferences = [disallowStairs |-> TRUE, outdoorPenalty |-> 0,
                    campusBoundaryPenalty |-> 0]

\* C21: on the graph with nodes A (indoor), B (outdoor), C (indoor) and edges
\* A-B (10, step-free), B-C (10, step-free), A-C (30, stairs), the call from A
\* to C with disallowStairs true and zero penalties returns exactly the path
\* [A, B, C], whose cost is 20.
C21_StairsExample ==
  (StairsExample /\ ScenarioEnded) =>
     /\ result = PathResult(<<"A", "B", "C">>)
     /\ NavRouteCost(data, preferences, result.path) = 20
     /\ distances["C"] = 20

\* the stairs example has returned a path
C21_Witness == StairsExample /\ ScenarioEnded /\ result.kind = "path"

\* the ids of the nodes of data joined to node a by an admissible edge
ScenarioNeighbours(a) ==
  {n \in DOMAIN nodeMapOf(data) : NavEdgeCost(data, preferences, a, n) # Infinity}

\* the routes that go on from route seq to node b without passing a node twice
RECURSIVE ScenarioRoutesFrom(_, _)
ScenarioRoutesFrom(seq, b) ==
  IF seq[Len(seq)] = b THEN {seq}
  ELSE UNION {ScenarioRoutesFrom(Append(seq, n), b) :
                n \in ScenarioNeighbours(seq[Len(seq)]) \ {seq[i] : i \in DOMAIN seq}}

\* every route from startId to endId
ScenarioRoutes == ScenarioRoutesFrom(<<startId>>, endId)

OffCampus(id) == FieldIsTrue(nodeMapGet(nodeMapOf(data), id), "outside_campus")
OnCampusOnly(route) == \A i \in DOMAIN route : ~OffCampus(route[i])

\* the cost of a route, its cost before the campus boundary penalty, and its
\* raw distance
RouteCost(route) == NavRouteCost(data, preferences, route)
RouteCostBeforeCampus(route) ==
  NavRouteCost(data, WithField(preferences, "campusBoundaryPenalty", 0), route)
RouteRawDistance(route) ==
  NavRouteCost(data, [disallowStairs |-> disallowStairsOf(preferences)], route)

\* a returned call with the campus boundary penalty of the screen, between
\* nodes on campus
CampusCall ==
  /\ ScenarioEnded
  /\ preferences.campusBoundaryPenalty = CampusBoundaryPenalty
  /\ ~OffCampus(startId) /\ ~OffCampus(endId)

\* C22 as stated: with campusBoundaryPenalty = 5000 and start and end on campus,
\* every route through an off-campus node costs strictly more than an
\* on-campus-only route whose raw distance exceeds the detour's raw distance by
\* at most 4999, and the call returns an on-campus-only route whenever such an
\* alternative exists.
C22_RawDistanceMargin ==
  CampusCall =>
    LET on == {r \in ScenarioRoutes : OnCampusOnly(r)}
        off == ScenarioRoutes \ on
    IN /\ \A d \in off, r \in on :
            RouteRawDistance(r) <= RouteRawDistance(d) + 4999 => RouteCost(d) > RouteCost(r)
       /\ (\E r \in on : \A d \in off : RouteRawDistance(r) <= RouteRawDistance(d) + 4999)
            => result.kind = "path" /\ OnCampusOnly(result.path)

\* C22, amended: with campusBoundaryPenalty = 5000 and start and end on campus,
\* every route through an off-campus node costs strictly more than an
\* on-campus-only route whose raw distance plus outdoor penalties exceeds the
\* detour's raw distance plus outdoor penalties by at most 4999, and the call
\* returns an on-campus-only route whenever such an alternative exists.
C22_CostBeforeCampusMargin ==
  CampusCall =>
    LET on == {r \in ScenarioRoutes : OnCampusOnly(r)}
        off == ScenarioRoutes \ on
    IN /\ \A d \in off, r \in on :
            RouteCostBeforeCampus(r) <= RouteCostBeforeCampus(d) + 4999
               => RouteCost(d) > RouteCost(r)
       /\ (\E r \in on : \A d \in off :
              RouteCostBeforeCampus(r) <= RouteCostBeforeCampus(d) + 4999)
            => result.kind = "path" /\ OnCampusOnly(result.path)

\* the direct way on campus, 4999 metres longer than the detour, is returned
C22_Witness ==
  /\ CampusCall /\ data = CampusGraph(5001) /\ startId = "S"
  /\ result = PathResult(<<"S", "E">>)
  /\ \E d \in ScenarioRoutes : ~OnCampusOnly(d) /\ RouteRawDistance(d) = 2

(***************************************************************************)
(* The phase-1 call of the route effect, read off SpecNav.                 *)
(***************************************************************************)
\* the penalties tried on the phase-1 graph
PenaltyTrials == {0, OutdoorPenaltyOn, CampusBoundaryPenalty}

\* the neighbor entry addEdge makes of an edge
NeighborOf(edge) ==
  [id |-> edge.targetId, distance |-> edge.distance, no_stairs |-> edge.no_stairs]

\* the indoor-safe nodes of graphData and the edges between them, stairs included
IndoorPart ==
  LET safe(n) == n.id \in IndoorSafeIds
      both(e) == e.sourceId \in IndoorSafeIds /\ e.targetId \in IndoorSafeIds
  IN [nodes |-> SelectSeq(graphData.nodes, safe), edges |-> SelectSeq(graphData.edges, both)]

\* route p takes no staircase of gd: each hop has a step-free edge
StepFree(gd, p) ==
  \A i \in 1..(Len(p) - 1) :
     \E k \in DOMAIN gd.edges :
        /\ {gd.edges[k].sourceId, gd.edges[k].targetId} = {p[i], p[i + 1]}
        /\ gd.edges[k].no_stairs # FALSE

\* C23: in the graph of the phase-1 call every node is indoor-safe, every edge
\* joins indoor-safe nodes and edgeCost of every edge, in either direction, is
\* its raw distance whatever outdoorPenalty and campusBoundaryPenalty are; the
\* call returns the same path whatever outdoorPenalty it is given, so forcing it
\* to 0 changes neither path nor cost; and disallowStairs is passed on, so that
\* the path takes no staircase, also on the indoor part of the unfiltered graph.
C23_PenaltiesInertIndoors ==
  RouteComputed =>
    \A i \in CallsOfPhase(1) :
       LET c == routeRun.calls[i]
           nodeMap == nodeMapOf(c.graph)
       IN /\ \A j \in DOMAIN c.graph.nodes : c.graph.nodes[j].id \in IndoorSafeIds
          /\ \A k \in DOMAIN c.graph.edges : \A op \in PenaltyTrials, cp \in PenaltyTrials :
                LET e == c.graph.edges[k]
                    prefs == [disallowStairs |-> StairsDisallowed, outdoorPenalty |-> op,
                              campusBoundaryPenalty |-> cp]
                IN /\ {e.sourceId, e.targetId} \subseteq IndoorSafeIds
                   /\ edgeCost(nodeMap, prefs, e.sourceId, e.targetId, NeighborOf(e))
                        = e.distance
                   /\ edgeCost(nodeMap, prefs, e.targetId, e.sourceId, NeighborOf(e))
                        = e.distance
          /\ c.preferences.outdoorPenalty = 0
          /\ \A op \in PenaltyTrials :
                findShortestPath(c.graph, startNode, endNode,
                                 WithField(c.preferences, "outdoorPenalty", op)) = c.result
          /\ c.preferences.disallowStairs = StairsDisallowed
          /\ StairsDisallowed =>
                LET unfiltered == findShortestPath(IndoorPart, startNode, endNode,
                                                   c.preferences)
                IN /\ StepFree(graphData, c.result.path)
                   /\ StepFree(graphData, unfiltered.path)
                   /\ unfiltered.kind = c.result.kind
                   /\ NavRouteCost(IndoorPart, c.preferences, unfiltered.path)
                        = NavRouteCost(c.graph, c.preferences, c.result.path)

\* stairs are disallowed and phase 1 returned the corridor from A to B although
\* the staircase between them is shorter
C23_Witness ==
  /\ RouteComputed /\ StairsDisallowed
  /\ \E i \in CallsOfPhase(1) :
        /\ routeRun.calls[i].result = PathResult(<<"A", "B">>)
        /\ Len(routeRun.calls[i].graph.edges) > 0
  /\ \E k \in DOMAIN graphData.edges :
        /\ {graphData.edges[k].sourceId, graphData.edges[k].targetId} = {"A", "B"}
        /\ graphData.edges[k].no_stairs = FALSE

(***************************************************************************)
(* The search loop and the walk, step by step, read off Spec.              *)
(***************************************************************************)
\* the ids still in the frontier
Frontier == {pq[i] : i \in DOMAIN pq}

\* the ids with a distance that are not, or no longer, in the frontier
Finalized == DOMAIN distances \ Frontier

\* C24: a step of the search changes neither the distance nor the previous
\* pointer of an id that is no longer in the frontier, although the loop relaxes
\* every neighbor of the extracted node; previous[startId] is never set: it
\* stays null for a startId that is a node.
C24_FinalizedUnchanged ==
  [][/\ \A n \in Finalized :
         /\ n \in DOMAIN distances' /\ distances'[n] = distances[n]
         /\ previousOf(previous', n) = previousOf(previous, n)
     /\ previousOf(previous', startId) = previousOf(previous, startId)
     /\ startId \in NodeIdSet => previous[startId] = Null /\ previous'[startId] = Null]_vars

\* the start and one more node have left the frontier, and that node, which is
\* not the end, has had its neighbors relaxed, the start among them
C24_Witness ==
  /\ pc = "search" /\ Len(pq) = 1
  /\ \E m \in Finalized \ {startId} :
        /\ m # endId /\ distances[m] # Infinity /\ previous[m] = startId
        /\ \E k \in DOMAIN Call.graph[m] : Call.graph[m][k].id = startId

(***************************************************************************)
(* The route and the step index the screen holds, read off SpecNav.        *)
(***************************************************************************)
\* the preferences the toggles stand for
CurrentPreferences ==
  [disallowStairs |-> StairsDisallowed,
   outdoorPenalty |-> IF minimizeOutdoorPaths THEN OutdoorPenaltyOn ELSE 0,
   campusBoundaryPenalty |-> CampusBoundaryPenalty]

\* the two-phase route for the current start, end and preferences: the indoor
\* route where both ends are indoor-safe, outdoor paths are minimized and an
\* indoor route exists; the route on the whole display graph otherwise
TwoPhaseRoute ==
  LET display == displayGraphDataIn(Cur)
      safe(n) == n.id \in IndoorSafeIds
      both(e) == e.sourceId \in IndoorSafeIds /\ e.targetId \in IndoorSafeIds
      indoor == [nodes |-> SelectSeq(display.nodes, safe),
                 edges |-> SelectSeq(display.edges, both)]
      eligible == /\ minimizeOutdoorPaths
                  /\ startNode \in IndoorSafeIds /\ endNode \in IndoorSafeIds
      first == findShortestPath(indoor, startNode, endNode,
                                WithField(CurrentPreferences, "outdoorPenalty", 0))
      second == findShortestPath(display, startNode, endNode, CurrentPreferences)
  IN IF eligible /\ first.kind = "path" THEN first.path ELSE RouteOfResult(second)

\* C25: whenever no effect is waiting, after any sequence of selections, toggles
\* and exits, routePath is the two-phase route for the current start, end and
\* preferences, and the empty list when the start or the end is not set.
C25_NoStaleRoute ==
  Idle =>
    routePath = IF startNode = Null \/ endNode = Null THEN <<>> ELSE TwoPhaseRoute

\* the route on screen was computed after a toggle: phase 1 was tried and the
\* route is the indoor one
C25_Witness ==
  /\ Idle /\ RouteComputed
  /\ minimizeOutdoorPaths /\ StairsDisallowed
  /\ CallsOfPhase(1) # {}
  /\ Len(routePath) > 1

\* how far the locals st are from the return: the steps the call can still take
\* at most, counted from the frontier left and the path built
StepsLeft(st) ==
  CASE st.pc = "search" -> NumNodes + 3 + Len(st.pq)
    [] st.pc = "reconstruct" -> NumNodes + 2
    [] st.pc = "walk" -> NumNodes + 1 - Len(st.path)
    [] OTHER -> 0

\* no id occurs twice in p
Simple(p) == \A i, j \in DOMAIN p : p[i] = p[j] => i = j

\* C26: when startId and endId are nodes the call always finishes: every step
\* brings the return nearer, each iteration of the search loop takes one node
\* out of the frontier, so that there are at most as many iterations as nodes,
\* and the walk goes through pairwise distinct nodes until it has reached
\* startId; the walk never runs on without end.
C26_Terminates ==
  EndpointsPresent =>
    /\ pc # "crashed"
    /\ Len(pq) <= NumNodes
    /\ pc \in {"search", "reconstruct", "walk"} =>
          LET next == stepOf(Locals, Call)
          IN /\ StepsLeft(next) < StepsLeft(Locals)
             /\ StepsLeft(next) >= 0
             /\ (pc = "search" /\ next.pc = "search") => Len(next.pq) = Len(pq) - 1
    /\ Simple(path)
    /\ \A i \in DOMAIN path : path[i] \in NodeIdSet
    /\ pc = "walk" => u \notin {path[i] : i \in DOMAIN path}
    /\ (pc = "walk" /\ u = Null) => path[1] = startId
    /\ (pc = "done" /\ result.kind = "path") => result.path[1] = startId

\* a call that took every node out of the frontier and walked back over all of
\* them has returned
C26_Witness ==
  /\ EndpointsPresent /\ pc = "done"
  /\ Len(pq) = 0
  /\ result.kind = "path" /\ Len(result.path) = NumNodes

\* C27: at every step of a call, for every node n other than startId,
\* previous[n] is non-null exactly when distances[n] is finite, and then
\* previous[n] is a node joined to n by an admissible edge, with distances[n] =
\* distances[previous[n]] + edgeCost(previous[n], n) over the cheapest such
\* edge; distances[startId] is 0 throughout.
C27_PredecessorConsistent ==
  /\ distances[startId] = 0
  /\ \A n \in NodeIdSet \ {startId} :
        /\ (previous[n] # Null) <=> (distances[n] # Infinity)
        /\ previous[n] # Null =>
              /\ previous[n] \in NodeIdSet
              /\ AdmissibleJoining(previous[n], n) # {}
              /\ distances[previous[n]] # Infinity
              /\ distances[n] = distances[previous[n]] + CheapestEdgeCost(previous[n], n)

\* the search goes on and a node has been reached over a node other than the
\* start, to which two admissible edges of different cost join it
C27_Witness ==
  /\ pc = "search"
  /\ \E n \in NodeIdSet \ {startId} :
        /\ previous[n] \notin {Null, startId}
        /\ Cardinality({CostOfEdge(previous[n], n, k) :
                          k \in AdmissibleJoining(previous[n], n)}) > 1

\* C28: every path a call returns is walkable and simple: consecutive ids are
\* joined by an admissible edge of the graph, every id is the id of a node, and
\* no id occurs twice.
C28_WalkableSimplePath ==
  (pc = "done" /\ result.kind = "path") =>
     /\ \A i \in 1..(Len(result.path) - 1) :
           AdmissibleJoining(result.path[i], result.path[i + 1]) # {}
     /\ \A i \in DOMAIN result.path : result.path[i] \in NodeIdSet
     /\ Simple(result.path)

\* a path over all nodes was returned with stairs disallowed, one hop of it
\* over a step-free edge that lies beside a staircase
C28_Witness ==
  /\ pc = "done" /\ result.kind = "path" /\ Len(result.path) = NumNodes
  /\ disallowStairsOf(preferences)
  /\ \E i \in 1..(Len(result.path) - 1) :
        LET all == EdgesJoining(result.path[i], result.path[i + 1])
        IN all \ AdmissibleJoining(result.path[i], result.path[i + 1]) # {}

(***************************************************************************)
(* SpecLegacy: a call of findShortestPath with empty preferences followed  *)
(* by a call of the earlier function (routing.ts 163-240) on the same      *)
(* arguments.                                                              *)
(***************************************************************************)
\* preferences = {}, the default of routing.ts 33
EmptyPreferences == <<>>

\* two parallel edges from A to B, the longer one first, beside a way over C
\* that is shorter than the longer and longer than the shorter of the two
ParallelGraph ==
  [nodes |-> SolverNodes,
   edges |-> <<[sourceId |-> "A", targetId |-> "B", distance |-> MaxDist, no_stairs |-> TRUE],
               [sourceId |-> "B", targetId |-> "A", distance |-> 1, no_stairs |-> FALSE],
               [sourceId |-> "A", targetId |-> "C", distance |-> 1, no_stairs |-> TRUE],
               [sourceId |-> "C", targetId |-> "B", distance |-> 1, no_stairs |-> TRUE]>>]

\* the graphs of the two calls
LegacyGraphs == [nodes : {SolverNodes}, edges : EdgeLists] \cup {ParallelGraph}

InitLegacy ==
  /\ data \in LegacyGraphs
  /\ startId \in NodeIdSet
  /\ endId \in NodeIdSet
  /\ preferences = EmptyPreferences
  /\ \E call \in {Call} : \E st \in {initLocals(call)} : AssignLocals(st)
  /\ returned = <<>>
  /\ CostUnused
  /\ NavUnused

\* the earlier function called on the arguments of the call that has returned
LegacyCall ==
  /\ pc = "done"
  /\ returned' = <<[data |-> data, startId |-> startId, endId |-> endId,
                    result |-> legacyFindShortestPath(data, startId, endId)]>>
  /\ pc' = "compared"
  /\ UNCHANGED <<data, startId, endId, preferences, distances, previous, pq, path, u,
                 result>>
  /\ UNCHANGED <<costVars, navVars>>

NextLegacy == SearchStep \/ ReconstructStep \/ WalkStep \/ LegacyCall

SpecLegacy == InitLegacy /\ [][NextLegacy]_vars

\* the total raw distance of a path, over the shortest edge of each hop
RawDistance(p) == PathCost(p)

\* C29: on every graph, parallel and dangling edges included, and for every
\* start and end in the node set, findShortestPath with empty preferences
\* returns null exactly when the earlier three-argument findShortestPath
\* returns null, and otherwise the two paths have the same total raw distance.
C29_SameAsLegacy ==
  pc = "compared" =>
    LET legacy == returned[1].result
    IN /\ result.kind \in {"path", "null"}
       /\ legacy.kind = result.kind
       /\ result.kind = "path" => RawDistance(legacy.path) = RawDistance(result.path)

\* both calls returned a path one hop of which has two parallel edges of
\* different distance, on a graph with a dangling edge
C29_Witness ==
  /\ pc = "compared"
  /\ result.kind = "path" /\ returned[1].result.kind = "path"
  /\ \E k \in DOMAIN data.edges : Dangling(data.edges[k])
  /\ \E i \in 1..(Len(result.path) - 1) :
        \E j, k \in EdgesJoining(result.path[i], result.path[i + 1]) :
           data.edges[j].distance < data.edges[k].distance

\* the last index of routePath, 0 for the empty route
LastStepIndex(route) == Max(0, Len(route) - 1)

StepIndexInBounds == 0 <= currentStepIndex /\ currentStepIndex <= LastStepIndex(routePath)

\* C30: whenever no effect is waiting, 0 <= currentStepIndex <=
\* max(0, routePath.length - 1); every run of the route effect leaves the index
\* at 0; and a step of the previous and next buttons leaves it between 0 and the
\* last index.
C30_StepIndexInBounds ==
  /\ [](Idle => StepIndexInBounds)
  /\ [][/\ (routeEffectDue /\ routeRun'.ran) => currentStepIndex' = 0
        /\ (Idle /\ currentStepIndex' # currentStepIndex) =>
              /\ routePath' = routePath
              /\ 0 <= currentStepIndex'
              /\ currentStepIndex' <= LastStepIndex(routePath')]_vars

\* the next button has brought the index to the last step of a route of three
\* nodes or more
C30_Witness ==
  /\ Idle
  /\ Len(routePath) > 2
  /\ currentStepIndex = Len(routePath) - 1

====
